---- MODULE Spec2Model ----
(***************************************************************************)
(* Knox Finance vault / Dutch auction: the epoch lifecycle driven by the   *)
(* keeper (initializeAuction, initializeEpoch, processAuction), the        *)
(* auction state machine with its order book, and the vault's withdrawal   *)
(* lock.                                                                   *)
(*                                                                         *)
(* Time is counted in hours (1 days = 24, 24 hours = 24).  Signed 64.64    *)
(* fixed point numbers are kept as raw integers with FracBits fraction     *)
(* bits and IntBits integer bits, so that ONE is the raw value of 1.0 and  *)
(* Int128Max the raw value of type(int128).max.                            *)
(***************************************************************************)
EXTENDS Integers, Sequences, FiniteSets, TLC

\* ------------------------------------------------------------------ bounds

\* the vault epoch counter is capped: initializeEpoch is not taken beyond it
MaxEpoch == 1
\* the cap on the epoch counter where the calls are those of the keeper and
\* of the order book only
MaxBookEpoch == 2
\* the epochs whose auctions are driven directly, with any arguments
MaxAuctionEpoch == 1
\* number of orders inserted in the order book taken on its own
MaxBookOrders == 4
\* number of weeks of timestamps over which the calendar is followed
MaxWeeks == 2
\* total number of orders issued over all order books
MaxOrders == 2
\* total number of orders where the buyers place limit orders only
MaxLimitOrders == 3
\* total number of queue deposits
MaxDeposits == 1
\* total number of vault withdrawals and redemptions that burn shares
MaxWithdrawals == 1
\* fraction bits of the fixed point representation (64 in the code)
FracBits == 2
\* integer bits of the fixed point representation (63 in the code)
IntBits == 5

\* --------------------------------------------------------------- constants

\* 24 hours: the hold period and the rescue delay
Hours24 == 24
\* 1 days
Day == 24
\* 8 hours: the auctions are anchored on Friday 8AM
Hours8 == 8
\* default auction window offsets from Friday 8AM
startOffset == 2
endOffset == 4

ONE == 2 ^ FracBits
\* the performance fee the vault is deployed with
performanceFee64x64 == ONE \div 4
Int128Max == 2 ^ (IntBits + FracBits) - 1

Epochs == 0 .. MaxBookEpoch
Buyers == {"b1", "b2"}
\* order sizes, one of them below the minimum, and the minimum order size of
\* the auction
Sizes == {0, 1, 2}
minSize == 1
\* the price buyers put on limit orders: 0, which is refused, and 2.5,
\* between the prices of a valid pair, and with a fraction so that
\* price x size is rounded
LimitPrices == {0, 2 * ONE + ONE \div 2}
\* the most a buyer accepts to pay for a market order
MaxCosts == {2, 6}
\* what the pricer can answer: the delta strike, and the (max, min) pair of
\* Black-Scholes prices
Strikes == {0, 2 * ONE}
PricePairs == {<<3 * ONE, ONE>>, <<ONE, 2 * ONE>>}
\* amounts a depositor puts in the queue
DepositAmounts == {3}
\* the vault sells calls (TRUE) or puts (FALSE)
OptionKinds == {TRUE}
\* timestamps at which the system can be deployed
InitTimes == {0}
\* the depositors of the queue followed one by one, the collateral each of
\* them owns at deployment, and the amounts they deposit and cancel
Depositors == {"lp1", "lp2"}
Funds == 3
QueueAmounts == {0, 1, 2}

VARIABLES
    now,              \* block.timestamp, in hours
    epoch,            \* VaultStorage.Layout.epoch
    startTime,        \* VaultStorage.Layout.startTime
    auctionProcessed, \* VaultStorage.Layout.auctionProcessed
    lastTotalAssets,  \* VaultStorage.Layout.lastTotalAssets
    totalWithdrawals, \* VaultStorage.Layout.totalWithdrawals
    options,          \* VaultStorage.Layout.options : epoch -> Option
    auctions,         \* AuctionStorage.Layout.auctions : epoch -> Auction
    orderbooks,       \* AuctionStorage.Layout.orderbooks : epoch -> book
    issued,           \* number of orders issued so far (all books)
    erc20,            \* collateral balances of the vault, auction and queue
    longs,            \* long tokens held by the auction, by token id
    shorts,           \* short tokens held by the vault, by token id
    shares,           \* vault shares: of the LP and of the queue
    claims,           \* claim tokens of the LP, by epoch
    deposits,         \* number of queue deposits made so far
    withdrawn,        \* number of vault withdrawals that burnt shares
    isCall,           \* the vault sells calls (true) or puts (false)
    pricePerShare,    \* queue: shares per claim token, by epoch
    queueEpoch,       \* queue: the epoch of the current claim token id
    wallets,          \* collateral held by the depositors of the queue
    claimTokens,      \* claim tokens of the depositors, by epoch
    lpShares,         \* vault shares held by the depositors
    config,           \* VaultStorage.Layout: what the owner's setters write
    inFlight          \* the order of the call suspended in its ETH refund

vars == <<now, epoch, startTime, auctionProcessed, lastTotalAssets,
          totalWithdrawals, options, auctions, orderbooks, issued, erc20,
          longs, shorts, shares, claims, deposits, withdrawn, isCall,
          pricePerShare, queueEpoch, wallets, claimTokens, lpShares,
          config, inFlight>>

vaultVars == <<epoch, startTime, auctionProcessed, lastTotalAssets,
               totalWithdrawals, options>>
auctionVars == <<auctions, orderbooks, issued>>
lpVars == <<wallets, claimTokens, lpShares>>
tokenVars == <<erc20, longs, shorts, shares, claims, deposits, withdrawn,
              pricePerShare>>

\* ------------------------------------------------------- ABDKMath64x64

\* x.mulu(y): a 64.64 number times an unsigned integer, rounded down
mulu(x, y) == (x * y) \div ONE
\* x.divu(y): the 64.64 quotient of two unsigned integers, rounded down
divu(x, y) == (x * ONE) \div y
\* x.mul(y): the 64.64 product, rounded down
mul(x, y) == (x * y) \div ONE
\* x.sub(y)
sub(x, y) == x - y

\* ------------------------------------------------------------ OptionMath

\* size.fromContractsToCollateral(isCall, underlyingDecimals, baseDecimals,
\* strike): a call is collateralised one to one in the underlying, a put by
\* size x strike in the base token (equal decimals)
fromContractsToCollateral(size, call, strike64x64) ==
    IF call THEN size ELSE mulu(strike64x64, size)

\* collateral.fromContractsToCollateral(isCall, baseDecimals, strike): the
\* three-argument conversion from collateral to contracts
fromCollateralToContracts(collateral, call, strike64x64) ==
    IF call THEN collateral
    ELSE IF strike64x64 > 0 THEN (collateral * ONE) \div strike64x64 ELSE 0

\* --------------------------------------------------------- time calendar

\* a Friday 8AM that stands for itself
getFridayInclusive(timestamp) ==
    LET dayOfWeek == ((timestamp \div Day) + 4) % 7
        nextFriday == timestamp + ((7 + 5 - dayOfWeek) % 7) * Day
        friday8am == nextFriday - (nextFriday % Hours24) + Hours8
    IN  IF timestamp > friday8am THEN friday8am + 7 * Day ELSE friday8am

\* a Friday 8AM that is not moved to the next week
getFridaySameWeek(timestamp) ==
    LET dayOfWeek == ((timestamp \div Day) + 4) % 7
        nextFriday == timestamp + ((7 + 5 - dayOfWeek) % 7) * Day
    IN  nextFriday - (nextFriday % Hours24) + Hours8

\* _getFriday(timestamp): the first Friday 8AM after the timestamp
getFriday(timestamp) ==
    LET dayOfWeek == ((timestamp \div Day) + 4) % 7
        nextFriday == timestamp + ((7 + 5 - dayOfWeek) % 7) * Day
        friday8am == nextFriday - (nextFriday % Hours24) + Hours8
    IN  IF timestamp >= friday8am THEN friday8am + 7 * Day ELSE friday8am

\* _getNextFriday(timestamp): the Friday 8AM at least four days away
getNextFriday(timestamp) ==
    LET dayOfWeek == ((timestamp \div Day) + 4) % 7
        nextFriday == timestamp + ((7 + 5 - dayOfWeek) % 7) * Day
        friday8am == nextFriday - (nextFriday % Hours24) + Hours8
    IN  IF timestamp >= friday8am \/ friday8am - timestamp < 4 * Day
        THEN friday8am + 7 * Day
        ELSE friday8am

\* ----------------------------------------------------------- token ids

\* Premia token types
LONG_CALL == 4
SHORT_CALL == 5
LONG_PUT == 6
SHORT_PUT == 7

NoToken == <<0, 0, 0>>

\* _formatTokenId(tokenType, maturity, strike64x64)
formatTokenId(tokenType, maturity, strike64x64) ==
    <<tokenType, maturity, strike64x64>>

Bal(f, id) == IF id \in DOMAIN f THEN f[id] ELSE 0
SetBal(f, id, v) == [x \in DOMAIN f \cup {id} |-> IF x = id THEN v ELSE f[x]]

\* ------------------------------------------------------------- statuses

UNINITIALIZED == "UNINITIALIZED"
INITIALIZED == "INITIALIZED"
FINALIZED == "FINALIZED"
PROCESSED == "PROCESSED"
CANCELLED == "CANCELLED"

ZeroAuction ==
    [status |-> UNINITIALIZED, expiry |-> 0, strike64x64 |-> 0,
     maxPrice64x64 |-> 0, minPrice64x64 |-> 0, lastPrice64x64 |-> 0,
     startTime |-> 0, endTime |-> 0, processedTime |-> 0,
     totalContracts |-> 0, totalContractsSold |-> 0, totalPremiums |-> 0,
     longTokenId |-> NoToken]

ZeroOption == [expiry |-> 0, strike64x64 |-> 0,
               longTokenId |-> NoToken, shortTokenId |-> NoToken]

EmptyBook == [list |-> <<>>, nextId |-> 1]

\* ------------------------------------------------------------ OrderBook

\* the position after the last order whose price is above the new price
InsertPosBeforeEqual(list, price64x64) ==
    Cardinality({i \in 1 .. Len(list) : list[i].price64x64 > price64x64})

\* the position after the last order whose price is >= the new price
InsertPos(list, price64x64) ==
    Cardinality({i \in 1 .. Len(list) : list[i].price64x64 >= price64x64})

\* _insert(price, size, buyer): a fresh id, spliced in price order, FIFO
\* among equal prices
BookInsert(book, price64x64, size, buyer) ==
    LET k == InsertPos(book.list, price64x64)
        o == [id |-> book.nextId, price64x64 |-> price64x64,
              size |-> size, buyer |-> buyer]
    IN  [list |-> SubSeq(book.list, 1, k) \o <<o>>
                    \o SubSeq(book.list, k + 1, Len(book.list)),
         nextId |-> book.nextId + 1]

\* _remove(id)
BookRemove(book, id) ==
    [book EXCEPT !.list = SelectSeq(book.list, LAMBDA o : o.id # id)]

\* _getOrderById(id): the zero order when the id is absent
NoBuyer == "0x0"
\* no call is suspended
NoOrder == [buyer |-> NoBuyer, epoch |-> 0, price64x64 |-> 0, size |-> 0]
\* ReentrancyGuard.nonReentrant: fails inside a call that holds the lock
nonReentrant == inFlight = NoOrder
BookOrder(book, id) ==
    LET s == SelectSeq(book.list, LAMBDA o : o.id = id)
    IN  IF Len(s) > 0 THEN s[1]
        ELSE [id |-> 0, price64x64 |-> 0, size |-> 0, buyer |-> NoBuyer]

\* -------------------------------------------------------- auction pricing

\* _lastPrice64x64(auction)
lastPrice64x64(a) == a.lastPrice64x64

\* a price curve that runs one hour ahead
priceCurveAhead64x64(a, t) ==
    IF t <= a.startTime THEN a.maxPrice64x64
    ELSE LET totalTime == a.endTime - a.startTime
             elapsed == t - a.startTime
             timeRemaining64x64 == divu(elapsed + 1, totalTime)
             x == sub(a.maxPrice64x64, a.minPrice64x64)
             y == mul(timeRemaining64x64, x)
         IN  sub(a.maxPrice64x64, y)

\* _priceCurve64x64(auction) at block.timestamp t
priceCurve64x64(a, t) ==
    IF t <= a.startTime THEN a.maxPrice64x64
    ELSE LET totalTime == a.endTime - a.startTime
             elapsed == t - a.startTime
             timeRemaining64x64 == divu(elapsed, totalTime)
             x == sub(a.maxPrice64x64, a.minPrice64x64)
             y == mul(timeRemaining64x64, x)
         IN  sub(a.maxPrice64x64, y)

\* _clearingPrice64x64(auction) at block.timestamp t
clearingPrice64x64(a, t) ==
    IF a.status \in {FINALIZED, PROCESSED, CANCELLED}
    THEN lastPrice64x64(a)
    ELSE priceCurve64x64(a, t)

\* ------------------------------------------------------------ vault views

\* _totalReserves(): reserveRate64x64.mulu(balance)
reserveRate64x64 == 0
totalReservesOf(balance) == mulu(reserveRate64x64, balance)

\* _totalCollateral(): the balance less the reserves
totalCollateralOf(balance) == balance - totalReservesOf(balance)
totalCollateral == totalCollateralOf(erc20.vault)

\* _lastEpoch(l)
lastEpoch == IF epoch > 0 THEN epoch - 1 ELSE 0

\* _lastOption(l)
lastOption == options[lastEpoch]

\* _totalShortAsContracts()
totalShortAsContracts == Bal(shorts, options[lastEpoch].shortTokenId)

\* _totalShortAsCollateral()
totalShortAsCollateral ==
    fromContractsToCollateral(totalShortAsContracts, isCall,
                              lastOption.strike64x64)

\* _totalAssets()
totalAssetsOf(balance) == totalCollateralOf(balance) + totalShortAsCollateral
totalAssets == totalAssetsOf(erc20.vault)

\* -------------------------------------------------- auction: finalization

\* a loop that counts the whole of the order that fills the auction
RECURSIVE ProcessLoopWholeOrder(_, _, _, _, _, _)
ProcessLoopWholeOrder(list, i, sold, last, total, clearing) ==
    IF i > Len(list)
    THEN [full |-> FALSE, lastPrice64x64 |-> last, sold |-> sold]
    ELSE LET data == list[i]
         IN  IF data.price64x64 < clearing
             THEN [full |-> FALSE, lastPrice64x64 |-> last, sold |-> sold]
             ELSE IF sold + data.size >= total
             THEN [full |-> TRUE, lastPrice64x64 |-> data.price64x64,
                   sold |-> sold + data.size]
             ELSE ProcessLoopWholeOrder(list, i + 1, sold + data.size,
                                        data.price64x64, total, clearing)

\* the loop of _processOrders from the i-th order of the book on
RECURSIVE ProcessLoop(_, _, _, _, _, _)
ProcessLoop(list, i, sold, last, total, clearing) ==
    IF i > Len(list)
    THEN [full |-> FALSE, lastPrice64x64 |-> last, sold |-> sold]
    ELSE LET data == list[i]
         IN  IF data.price64x64 < clearing
             THEN [full |-> FALSE, lastPrice64x64 |-> last, sold |-> sold]
             ELSE IF sold + data.size >= total
             THEN [full |-> TRUE, lastPrice64x64 |-> data.price64x64,
                   sold |-> total]
             ELSE ProcessLoop(list, i + 1, sold + data.size,
                              data.price64x64, total, clearing)

\* a total that is read from the vault every time
getTotalContractsLive(a) ==
    fromCollateralToContracts(totalCollateral, isCall, a.strike64x64)

\* _getTotalContracts(auction)
getTotalContracts(a) ==
    IF a.totalContracts <= 0
    THEN fromCollateralToContracts(totalCollateral, isCall, a.strike64x64)
    ELSE a.totalContracts

\* the value _processOrders stores in auction.totalContracts
StoredTotalContracts(a) ==
    IF a.totalContracts <= 0 THEN getTotalContracts(a) ELSE a.totalContracts

\* _processOrders(l, epoch): the auction after the traversal, and whether
\* the book reached 100% utilization
processOrders(a, list, t) ==
    LET total == getTotalContracts(a)
        a1 == [a EXCEPT !.totalContracts = StoredTotalContracts(a)]
        r == ProcessLoop(list, 1, 0, 0, total, clearingPrice64x64(a1, t))
    IN  [full |-> r.full,
         auction |-> [a1 EXCEPT !.lastPrice64x64 = r.lastPrice64x64,
                                !.totalContractsSold = r.sold]]

\* a finalization that waits for the end time whatever the book holds
finalizeAuctionAfterEndOnly(a, list, t) ==
    LET r == processOrders(a, list, t)
    IN  IF t > a.endTime
        THEN [r.auction EXCEPT !.status = FINALIZED]
        ELSE r.auction

\* _finalizeAuction(l, auction, epoch)
finalizeAuctionInternal(a, list, t) ==
    LET r == processOrders(a, list, t)
    IN  IF r.full \/ t > a.endTime
        THEN [r.auction EXCEPT !.status = FINALIZED]
        ELSE r.auction

\* a cancel that keeps the last price
cancelKeepingPrice(a) ==
    [a EXCEPT !.status = CANCELLED,
              !.totalPremiums = 0]

\* a cancel that also clears the contracts sold
cancelClearingSold(a) ==
    [a EXCEPT !.lastPrice64x64 = Int128Max,
              !.status = CANCELLED,
              !.totalPremiums = 0,
              !.totalContractsSold = 0]

\* _cancel(auction, epoch)
cancel(a) ==
    [a EXCEPT !.lastPrice64x64 = Int128Max,
              !.status = CANCELLED,
              !.totalPremiums = 0]

\* ----------------------------------------------------- auction: withdraw

\* a loop that refunds the whole payment of the orders it fills
RECURSIVE PreviewLoopFullRefund(_, _, _, _, _, _, _, _)
PreviewLoopFullRefund(list, i, sold, refund, fill, total, last, buyer) ==
    IF i > Len(list)
    THEN [ok |-> TRUE, refund |-> refund, fill |-> fill]
    ELSE LET data == list[i]
             paid == mulu(data.price64x64, data.size)
         IN  IF data.buyer # buyer
             THEN PreviewLoopFullRefund(list, i + 1, sold + data.size,
                                        refund, fill, total, last, buyer)
             ELSE IF last < Int128Max /\ data.price64x64 >= last
             THEN IF sold + data.size >= total
                  THEN IF total - sold < 0
                       THEN [ok |-> FALSE, refund |-> refund, fill |-> fill]
                       ELSE PreviewLoopFullRefund(list, i + 1,
                                sold + data.size, refund + paid,
                                fill + (total - sold), total, last, buyer)
                  ELSE PreviewLoopFullRefund(list, i + 1, sold + data.size,
                           refund + paid, fill + data.size, total, last,
                           buyer)
             ELSE PreviewLoopFullRefund(list, i + 1, sold + data.size,
                                        refund + paid, fill, total, last,
                                        buyer)

\* the loop of _previewWithdraw from the i-th order of the book on; ok is
\* false when auction.totalContracts - totalContractsSold underflows
RECURSIVE PreviewLoop(_, _, _, _, _, _, _, _)
PreviewLoop(list, i, sold, refund, fill, total, last, buyer) ==
    IF i > Len(list)
    THEN [ok |-> TRUE, refund |-> refund, fill |-> fill]
    ELSE LET data == list[i]
             paid == mulu(data.price64x64, data.size)
         IN  IF data.buyer # buyer
             THEN PreviewLoop(list, i + 1, sold + data.size, refund, fill,
                              total, last, buyer)
             ELSE IF last < Int128Max /\ data.price64x64 >= last
             THEN IF sold + data.size >= total
                  THEN IF total - sold < 0
                       THEN [ok |-> FALSE, refund |-> refund, fill |-> fill]
                       ELSE PreviewLoop(list, i + 1, sold + data.size,
                                refund + (paid - mulu(last, total - sold)),
                                fill + (total - sold), total, last, buyer)
                  ELSE PreviewLoop(list, i + 1, sold + data.size,
                           refund + (paid - mulu(last, data.size)),
                           fill + data.size, total, last, buyer)
             ELSE PreviewLoop(list, i + 1, sold + data.size, refund + paid,
                              fill, total, last, buyer)

\* _previewWithdraw(l, isPreview, epoch, buyer)
previewWithdraw(a, list, buyer, t) ==
    PreviewLoop(list, 1, 0, 0, 0, a.totalContracts,
                clearingPrice64x64(a, t), buyer)

\* _getExerciseAmount(l, epoch, size) for the spot the pool reports
getExerciseAmount(a, size, spot64x64, t) ==
    IF t < a.expiry THEN [expired |-> FALSE, amount |-> 0]
    ELSE IF isCall /\ spot64x64 > a.strike64x64
    THEN [expired |-> TRUE,
          amount |-> mulu((sub(spot64x64, a.strike64x64) * ONE)
                              \div spot64x64, size)]
    ELSE IF ~isCall /\ a.strike64x64 > spot64x64
    THEN [expired |-> TRUE,
          amount |-> mulu(sub(a.strike64x64, spot64x64), size)]
    ELSE [expired |-> TRUE, amount |-> 0]

\* the orders of a buyer, and what the buyer paid for them
OrdersOf(list, buyer) == SelectSeq(list, LAMBDA o : o.buyer = buyer)

RECURSIVE PaidFor(_)
PaidFor(list) ==
    IF list = <<>> THEN 0
    ELSE mulu(Head(list).price64x64, Head(list).size) + PaidFor(Tail(list))

\* ------------------------------------------------------------------- Init

\* VaultDiamond constructor: the configuration the vault is deployed with
InitConfig ==
    [delta64x64 |-> ONE \div 2,
     deltaOffset64x64 |-> ONE \div 4,
     performanceFee64x64 |-> performanceFee64x64,
     withdrawalFee64x64 |-> 0,
     startOffset |-> startOffset,
     endOffset |-> endOffset]

\* the depositors before their first deposit
InitDepositors ==
    /\ wallets = [d \in Depositors |-> Funds]
    /\ claimTokens = [d \in Depositors |-> [e \in Epochs |-> 0]]
    /\ lpShares = [d \in Depositors |-> 0]

InitAt(t) ==
    /\ now = t
    /\ isCall \in OptionKinds
    /\ epoch = 0
    /\ startTime = 0
    /\ auctionProcessed = FALSE
    /\ lastTotalAssets = 0
    /\ totalWithdrawals = 0
    /\ options = [e \in Epochs |-> ZeroOption]
    /\ auctions = [e \in Epochs |-> ZeroAuction]
    /\ orderbooks = [e \in Epochs |-> EmptyBook]
    /\ issued = 0
    /\ erc20 = [vault |-> 0, auction |-> 0, queue |-> 0]
    /\ longs = <<>>
    /\ shorts = <<>>
    /\ shares = [lp |-> 0, queue |-> 0]
    /\ claims = [e \in Epochs |-> 0]
    /\ deposits = 0
    /\ withdrawn = 0
    /\ pricePerShare = [e \in Epochs |-> 0]
    /\ queueEpoch = 0
    /\ InitDepositors
    /\ config = InitConfig
    /\ inFlight = NoOrder

\* the state after construction
Init == \E t \in InitTimes : InitAt(t)

\* ------------------------------------------------------------------- time

\* the timestamps at which the behaviour of some call on the auction changes:
\* the window and the rescue delay while it is open, the hold period and the
\* expiry once it is processed
AuctionTimePoints(a) ==
    CASE a.status = INITIALIZED ->
           {a.startTime, a.startTime + 1, a.endTime + 1, a.endTime + Hours24}
      [] a.status = FINALIZED -> {a.endTime + Hours24}
      [] a.status = PROCESSED -> {a.processedTime + Hours24, a.expiry}
      [] OTHER -> {}

\* the timestamps at which the behaviour of some call changes
TimePoints ==
    {startTime} \cup UNION {AuctionTimePoints(auctions[e]) : e \in Epochs}

\* block.timestamp advances
Tick ==
    /\ inFlight = NoOrder
    /\ \E t \in TimePoints : t > now /\ now' = t
    /\ UNCHANGED <<vaultVars, auctionVars, tokenVars, isCall, inFlight,
                   config, lpVars, queueEpoch>>

\* ------------------------------------------------- Auction: vault's calls

\* Auction.initialize(initAuction): what it makes of the auction
initialize(a, init, t) ==
    IF \/ init.startTime >= init.endTime
       \/ t > init.startTime
       \/ t > init.expiry
       \/ init.strike64x64 <= 0
       \/ init.longTokenId = NoToken
    THEN cancel(a)
    ELSE [a EXCEPT !.status = INITIALIZED,
                   !.expiry = init.expiry,
                   !.strike64x64 = init.strike64x64,
                   !.startTime = init.startTime,
                   !.endTime = init.endTime,
                   !.longTokenId = init.longTokenId]

\* a setAuctionPrices that lets equal prices through
setAuctionPricesAllowingEqual(a, maxPrice, minPrice) ==
    LET a1 == [a EXCEPT !.maxPrice64x64 = maxPrice,
                        !.minPrice64x64 = minPrice]
    IN  IF maxPrice <= 0 \/ minPrice <= 0 \/ maxPrice < minPrice
        THEN cancel(a1)
        ELSE a1

\* Auction.setAuctionPrices(epoch, max, min): what it makes of the auction
setAuctionPrices(a, maxPrice, minPrice) ==
    LET a1 == [a EXCEPT !.maxPrice64x64 = maxPrice,
                        !.minPrice64x64 = minPrice]
    IN  IF maxPrice <= 0 \/ minPrice <= 0 \/ maxPrice <= minPrice
        THEN cancel(a1)
        ELSE a1

\* Auction.transferPremium(epoch): the require statements
transferPremiumAllowed(a) ==
    /\ a.status = FINALIZED
    /\ a.totalPremiums <= 0

\* premiums charged at the highest price of the auction
transferPremiumAtMaxPrice(a) ==
    mulu(a.maxPrice64x64, a.totalContractsSold)

\* Auction.transferPremium(epoch): the premiums it moves
transferPremiumAmount(a) ==
    mulu(lastPrice64x64(a), a.totalContractsSold)

\* a processAuction that does not ask for the premiums
processAuctionAllowedNoPremiums(a, longTokenBalance) ==
    /\ a.status = FINALIZED
    /\ a.totalContractsSold > 0 =>
         longTokenBalance >= a.totalContractsSold

\* Auction.processAuction(epoch): the require statements, for the long
\* token balance the auction holds
processAuctionAllowed(a, longTokenBalance) ==
    /\ a.status = FINALIZED
    /\ a.totalContractsSold > 0 =>
         /\ a.totalPremiums > 0
         /\ longTokenBalance >= a.totalContractsSold

\* ------------------------------------------------- ERC4626 share accounting

PpsScale == 10 ^ 3

\* the sum of f over the depositors of S
RECURSIVE SumOver(_, _)
SumOver(f, S) ==
    IF S = {} THEN 0
    ELSE LET d == CHOOSE x \in S : TRUE
         IN  f[d] + SumOver(f, S \ {d})

totalSupply == shares.lp + shares.queue + SumOver(lpShares, Depositors)

\* _convertToShares(assets) for the vault balance it is measured against
convertToShares(assetAmount, balance) ==
    IF totalSupply = 0 \/ totalAssetsOf(balance) = 0 THEN assetAmount
    ELSE (assetAmount * totalSupply) \div totalAssetsOf(balance)

\* _convertToAssets(shares)
convertToAssets(shareAmount) ==
    IF totalSupply = 0 THEN shareAmount
    ELSE (shareAmount * totalAssets) \div totalSupply

\* _previewWithdraw(assets): the shares to burn, rounded up
previewWithdrawShares(assetAmount) ==
    IF totalSupply = 0 \/ totalAssets = 0 THEN assetAmount
    ELSE (assetAmount * totalSupply + totalAssets - 1) \div totalAssets

\* ------------------------------------------------------------------ Queue

\* the vault shares the queue owes the LP for the claim tokens of the
\* processed epochs (every token id but the current one)
Unredeemed(e) == (claims[e] * pricePerShare[e]) \div PpsScale

RECURSIVE UnredeemedBelow(_)
UnredeemedBelow(e) ==
    IF e = 0 THEN 0 ELSE Unredeemed(e - 1) + UnredeemedBelow(e - 1)

\* Queue.redeemMax(receiver, owner): the claim tokens left afterwards
ClaimsAfterRedeemMax ==
    [e \in Epochs |-> IF e < queueEpoch THEN 0 ELSE claims[e]]

\* Queue.redeemMax(receiver, owner): the shares afterwards
SharesAfterRedeemMax ==
    [lp |-> shares.lp + UnredeemedBelow(queueEpoch),
     queue |-> shares.queue - UnredeemedBelow(queueEpoch)]

\* Queue.deposit(amount); deposits for an epoch that is never initialized
\* (see InitializeEpoch) are not taken
QueueDeposit ==
    /\ deposits < MaxDeposits
    /\ epoch < MaxEpoch
    /\ \E amount \in DepositAmounts :
         /\ erc20' = [erc20 EXCEPT !.queue = @ + amount]
         /\ claims' = [ClaimsAfterRedeemMax EXCEPT ![queueEpoch] = @ + amount]
    /\ shares' = SharesAfterRedeemMax
    /\ deposits' = deposits + 1
    /\ UNCHANGED <<now, vaultVars, auctionVars, longs, shorts, withdrawn,
                   isCall, inFlight, config, lpVars, queueEpoch,
                   pricePerShare>>

\* the most collateral the queue takes
maxTVL == 4
\* number of deposits followed depositor by depositor
MaxQueueDeposits == 3

\* the supply of the current claim token id
currentTokenSupply ==
    claims[queueEpoch]
    + SumOver([d \in Depositors |-> claimTokens[d][queueEpoch]], Depositors)

\* Queue.previewUnredeemed(tokenId, owner)
previewUnredeemed(tokenId, owner) ==
    IF tokenId = queueEpoch THEN 0
    ELSE (claimTokens[owner][tokenId] * pricePerShare[tokenId]) \div PpsScale

\* Queue.redeemMax(owner, owner): the shares the owner receives for every
\* token id but the current one
RECURSIVE redeemMaxShares(_, _)
redeemMaxShares(owner, ids) ==
    IF ids = {} THEN 0
    ELSE LET id == CHOOSE x \in ids : TRUE
         IN  previewUnredeemed(id, owner)
             + redeemMaxShares(owner, ids \ {id})

\* Queue.deposit(amount) goes through
depositAllowed(d, amount) ==
    /\ amount > 0
    /\ erc20.queue + amount <= maxTVL
    /\ wallets[d] >= amount

\* Queue.deposit(amount) called by d: redeemMax, then the claim tokens of the
\* current id are minted 1:1
depositBy(d, amount) ==
    /\ deposits < MaxQueueDeposits
    /\ depositAllowed(d, amount)
    /\ LET swept == redeemMaxShares(d, Epochs)
       IN  /\ shares' = [shares EXCEPT !.queue = @ - swept]
           /\ lpShares' = [lpShares EXCEPT ![d] = @ + swept]
    /\ claimTokens' = [claimTokens EXCEPT ![d] =
           [e \in Epochs |-> IF e = queueEpoch THEN @[e] + amount ELSE 0]]
    /\ wallets' = [wallets EXCEPT ![d] = @ - amount]
    /\ erc20' = [erc20 EXCEPT !.queue = @ + amount]
    /\ deposits' = deposits + 1
    /\ UNCHANGED <<now, vaultVars, auctionVars, longs, shorts, claims,
                   withdrawn, isCall, inFlight, config, queueEpoch,
                   pricePerShare>>

DepositBy ==
    \E d \in Depositors, amount \in QueueAmounts : depositBy(d, amount)

\* Queue.cancel(amount) goes through: the claim tokens of the current id are
\* there to burn
cancelAllowed(d, amount) == claimTokens[d][queueEpoch] >= amount

\* a cancel that burns every claim token of the current id
cancelClaimsWhole(d, amount) == [claimTokens EXCEPT ![d][queueEpoch] = 0]

\* Queue.cancel(amount): what the depositors hold afterwards
cancelWallets(d, amount) == [wallets EXCEPT ![d] = @ + amount]
cancelClaims(d, amount) ==
    [claimTokens EXCEPT ![d][queueEpoch] = @ - amount]

\* Queue.cancel(amount) called by d
cancelBy(d, amount) ==
    /\ cancelAllowed(d, amount)
    /\ claimTokens' = cancelClaims(d, amount)
    /\ wallets' = cancelWallets(d, amount)
    /\ erc20' = [erc20 EXCEPT !.queue = @ - amount]
    /\ UNCHANGED <<now, vaultVars, auctionVars, longs, shorts, shares, claims,
                   deposits, withdrawn, isCall, inFlight, config, lpShares,
                   queueEpoch, pricePerShare>>

CancelBy ==
    \E d \in Depositors, amount \in QueueAmounts : cancelBy(d, amount)

\* a redeem that takes the current claim token id too
redeemAllowedAnyId(tokenId) == TRUE

\* Queue.redeem(tokenId, receiver) goes through
redeemAllowed(tokenId) == tokenId # queueEpoch

\* Queue.redeem(tokenId, receiver) called by d
redeemBy(d, tokenId, receiver) ==
    /\ redeemAllowed(tokenId)
    /\ LET unredeemedShares ==
               (claimTokens[d][tokenId] * pricePerShare[tokenId])
               \div PpsScale
       IN  /\ shares.queue >= unredeemedShares
           /\ shares' = [shares EXCEPT !.queue = @ - unredeemedShares]
           /\ lpShares' = [lpShares EXCEPT ![receiver] = @ + unredeemedShares]
    /\ claimTokens' = [claimTokens EXCEPT ![d][tokenId] = 0]
    /\ UNCHANGED <<now, vaultVars, auctionVars, erc20, longs, shorts, claims,
                   deposits, withdrawn, isCall, inFlight, config, wallets,
                   queueEpoch, pricePerShare>>

RedeemBy ==
    \E d \in Depositors, tokenId \in Epochs, receiver \in Depositors :
        redeemBy(d, tokenId, receiver)

\* a depositor sends collateral straight to the vault
TransferToVault ==
    \E d \in Depositors, amount \in QueueAmounts :
        /\ amount > 0
        /\ wallets[d] >= amount
        /\ wallets' = [wallets EXCEPT ![d] = @ - amount]
        /\ erc20' = [erc20 EXCEPT !.vault = @ + amount]
        /\ UNCHANGED <<now, vaultVars, auctionVars, longs, shorts, shares,
                       claims, deposits, withdrawn, isCall, inFlight, config,
                       claimTokens, lpShares, queueEpoch, pricePerShare>>

\* ------------------------------------------------------------ VaultAdmin

\* the int128 values the owner passes to the setters, from below 0 to above
\* 1, and the offsets in hours, up to more than a week
ConfigValues == -1 .. ONE + 1
Offsets == {0, 2, 4, 7 * Day + 2}

\* VaultAdmin.setAuctionWindowOffsets(newStartOffset, newEndOffset)
SetAuctionWindowOffsets ==
    /\ \E newStartOffset \in Offsets, newEndOffset \in Offsets :
         /\ newEndOffset > newStartOffset
         /\ config' = [config EXCEPT !.startOffset = newStartOffset,
                                     !.endOffset = newEndOffset]
    /\ UNCHANGED <<now, vaultVars, auctionVars, tokenVars, isCall, inFlight,
                   lpVars, queueEpoch>>

\* VaultAdmin.setDelta64x64(newDelta64x64)
SetDelta64x64 ==
    /\ \E newDelta64x64 \in ConfigValues :
         /\ newDelta64x64 > 0
         /\ newDelta64x64 < ONE
         /\ config' = [config EXCEPT !.delta64x64 = newDelta64x64]
    /\ UNCHANGED <<now, vaultVars, auctionVars, tokenVars, isCall, inFlight,
                   lpVars, queueEpoch>>

\* VaultAdmin.setDeltaOffset64x64(newDeltaOffset64x64)
SetDeltaOffset64x64 ==
    /\ \E newDeltaOffset64x64 \in ConfigValues :
         /\ newDeltaOffset64x64 > 0
         /\ newDeltaOffset64x64 < ONE
         /\ config' = [config EXCEPT
                          !.deltaOffset64x64 = newDeltaOffset64x64]
    /\ UNCHANGED <<now, vaultVars, auctionVars, tokenVars, isCall, inFlight,
                   lpVars, queueEpoch>>

\* VaultAdmin.setPerformanceFee64x64(newPerformanceFee64x64)
SetPerformanceFee64x64 ==
    /\ \E newPerformanceFee64x64 \in ConfigValues :
         /\ newPerformanceFee64x64 < ONE
         /\ config' = [config EXCEPT
                          !.performanceFee64x64 = newPerformanceFee64x64]
    /\ UNCHANGED <<now, vaultVars, auctionVars, tokenVars, isCall, inFlight,
                   lpVars, queueEpoch>>

\* VaultAdmin.setWithdrawalFee64x64(newWithdrawalFee64x64)
SetWithdrawalFee64x64 ==
    /\ \E newWithdrawalFee64x64 \in ConfigValues :
         /\ newWithdrawalFee64x64 < ONE
         /\ config' = [config EXCEPT
                          !.withdrawalFee64x64 = newWithdrawalFee64x64]
    /\ UNCHANGED <<now, vaultVars, auctionVars, tokenVars, isCall, inFlight,
                   lpVars, queueEpoch>>

\* ------------------------------------------------------- keeper commands

\* an initializeAuction that can be repeated
initializeAuctionAllowedAgain == auctions[epoch].status # INITIALIZED

\* Vault.initializeAuction(): goes through iff Auction.initialize does
initializeAuctionAllowed == auctions[epoch].status = UNINITIALIZED

\* Vault.initializeAuction()
InitializeAuction ==
    /\ initializeAuctionAllowed
    /\ \E strike \in Strikes :
         LET expiry == getNextFriday(now)
             longId == formatTokenId(IF isCall THEN LONG_CALL ELSE LONG_PUT,
                                     expiry, strike)
             shortId == formatTokenId(IF isCall THEN SHORT_CALL
                                      ELSE SHORT_PUT, expiry, strike)
             startTimestamp == getFriday(now)
             st == startTimestamp + config.startOffset
             et == startTimestamp + config.endOffset
             init == [epoch |-> epoch, expiry |-> expiry,
                      strike64x64 |-> strike, longTokenId |-> longId,
                      startTime |-> st, endTime |-> et]
         IN  /\ options' = [options EXCEPT ![epoch] =
                               [expiry |-> expiry, strike64x64 |-> strike,
                                longTokenId |-> longId,
                                shortTokenId |-> shortId]]
             /\ startTime' = st
             /\ auctionProcessed' = FALSE
             /\ auctions' = [auctions EXCEPT ![epoch] =
                                initialize(@, init, now)]
    /\ UNCHANGED <<now, epoch, lastTotalAssets, totalWithdrawals, orderbooks,
                   issued, tokenVars, isCall, inFlight, config, lpVars,
                   queueEpoch>>

\* _collectPerformanceFee(l): the fee sent to the fee recipient
performanceFee ==
    LET adjustedTotalAssets == totalAssets + totalWithdrawals
    IN  IF epoch > 0 /\ adjustedTotalAssets > lastTotalAssets
        THEN mulu(config.performanceFee64x64,
                  adjustedTotalAssets - lastTotalAssets)
        ELSE 0

\* Vault.initializeEpoch(): _setAuctionPrices needs the strike of the epoch
\* that ends and its auction in status INITIALIZED; the fee must be payable
initializeEpochAllowed ==
    /\ erc20.vault >= performanceFee
    /\ options[epoch].strike64x64 > 0
    /\ auctions[epoch].status = INITIALIZED

\* an initializeEpoch whose queue stays on its claim token id
InitializeEpochQueueBehind(cap) ==
    /\ epoch < cap
    /\ initializeEpochAllowed
    /\ LET balance == erc20.vault - performanceFee
           queued == erc20.queue
           sharesMinted == convertToShares(queued, balance)
       IN  /\ erc20' = [erc20 EXCEPT !.vault = balance + queued,
                                     !.queue = 0]
           /\ shares' = [shares EXCEPT !.queue = @ + sharesMinted]
           /\ pricePerShare' = [pricePerShare EXCEPT ![queueEpoch] =
                  IF currentTokenSupply = 0 THEN 0
                  ELSE (sharesMinted * PpsScale) \div currentTokenSupply]
           /\ queueEpoch' = queueEpoch
    /\ totalWithdrawals' = IF epoch > 0 THEN 0 ELSE totalWithdrawals
    /\ epoch' = epoch + 1
    /\ \E pair \in PricePairs :
         auctions' = [auctions EXCEPT ![epoch] =
                         setAuctionPrices(@, pair[1], pair[2])]
    /\ UNCHANGED <<now, startTime, auctionProcessed, lastTotalAssets, options,
                   orderbooks, issued, longs, shorts, claims, deposits,
                   withdrawn, isCall, inFlight, config, lpVars>>

\* Vault.initializeEpoch(), while the epoch counter is below cap
InitializeEpochUpTo(cap) ==
    /\ epoch < cap
    /\ initializeEpochAllowed
    /\ LET balance == erc20.vault - performanceFee
           queued == erc20.queue
           sharesMinted == convertToShares(queued, balance)
       IN  /\ erc20' = [erc20 EXCEPT !.vault = balance + queued,
                                     !.queue = 0]
           /\ shares' = [shares EXCEPT !.queue = @ + sharesMinted]
           /\ pricePerShare' = [pricePerShare EXCEPT ![queueEpoch] =
                  IF currentTokenSupply = 0 THEN 0
                  ELSE (sharesMinted * PpsScale) \div currentTokenSupply]
           /\ queueEpoch' = queueEpoch + 1
    /\ totalWithdrawals' = IF epoch > 0 THEN 0 ELSE totalWithdrawals
    /\ epoch' = epoch + 1
    /\ \E pair \in PricePairs :
         auctions' = [auctions EXCEPT ![epoch] =
                         setAuctionPrices(@, pair[1], pair[2])]
    /\ UNCHANGED <<now, startTime, auctionProcessed, lastTotalAssets, options,
                   orderbooks, issued, longs, shorts, claims, deposits,
                   withdrawn, isCall, inFlight, config, lpVars>>

\* Vault.initializeEpoch()
InitializeEpoch == InitializeEpochUpTo(MaxEpoch)

\* a status test that lets a processed auction through again
processAuctionStatusOrProcessed ==
    auctions[lastEpoch].status \in {FINALIZED, CANCELLED, PROCESSED}

\* Vault.processAuction(): exactly one of finalized and cancelled
processAuctionStatusOk ==
    LET cancelled == auctions[lastEpoch].status = CANCELLED
        finalized == auctions[lastEpoch].status = FINALIZED
    IN  (~finalized /\ cancelled) \/ (finalized /\ ~cancelled)

\* Vault.processAuction() on a finalized auction: the auction after
\* transferPremium, the collateral the pool takes to underwrite the
\* contracts sold, and the long tokens the auction then holds
PremiumsOf(a) == transferPremiumAmount(a)
AfterPremium(a) == [a EXCEPT !.totalPremiums = PremiumsOf(a)]
CollateralUsed(a) ==
    IF a.totalContractsSold > 0
    THEN fromContractsToCollateral(a.totalContractsSold, isCall,
                                   lastOption.strike64x64)
    ELSE 0
LongsAfterWrite(a) ==
    IF a.totalContractsSold > 0
    THEN SetBal(longs, lastOption.longTokenId,
                Bal(longs, lastOption.longTokenId) + a.totalContractsSold)
    ELSE longs

\* Vault.processAuction() goes through: the status check, and for a
\* finalized auction transferPremium, Pool.writeFrom and
\* Auction.processAuction
vaultProcessAuctionAllowed ==
    LET a == auctions[lastEpoch]
    IN  /\ processAuctionStatusOk
        /\ a.status = FINALIZED =>
             /\ transferPremiumAllowed(a)
             /\ erc20.auction >= PremiumsOf(a)
             /\ erc20.vault + PremiumsOf(a) >= CollateralUsed(a)
             /\ processAuctionAllowed(AfterPremium(a),
                    Bal(LongsAfterWrite(a), a.longTokenId))

\* Vault.processAuction()
ProcessAuction ==
    /\ vaultProcessAuctionAllowed
    /\ lastTotalAssets' = totalAssets
    /\ LET a == auctions[lastEpoch]
       IN  IF a.status = FINALIZED
           THEN /\ erc20' = [erc20 EXCEPT
                      !.auction = @ - PremiumsOf(a),
                      !.vault = @ + PremiumsOf(a) - CollateralUsed(a)]
                /\ longs' = LongsAfterWrite(a)
                /\ shorts' = IF a.totalContractsSold > 0
                             THEN SetBal(shorts, lastOption.shortTokenId,
                                      Bal(shorts, lastOption.shortTokenId)
                                          + a.totalContractsSold)
                             ELSE shorts
                /\ auctions' = [auctions EXCEPT ![lastEpoch] =
                      [AfterPremium(a) EXCEPT !.processedTime = now,
                                              !.status = PROCESSED]]
           ELSE /\ UNCHANGED <<erc20, longs, shorts, auctions>>
    /\ auctionProcessed' = TRUE
    /\ UNCHANGED <<now, epoch, startTime, totalWithdrawals, options,
                   orderbooks, issued, shares, claims, deposits, withdrawn,
                   isCall, inFlight, config, lpVars, queueEpoch,
                   pricePerShare>>

\* ------------------------------------------------------- Auction: buyers

\* _limitOrdersAllowed(auction)
limitOrdersAllowed(a, t) ==
    /\ a.status = INITIALIZED
    /\ a.endTime > 0
    /\ t <= a.endTime

\* _marketOrdersAllowed(auction)
marketOrdersAllowed(a, t) ==
    /\ a.status = INITIALIZED
    /\ a.startTime > 0
    /\ t >= a.startTime
    /\ a.endTime > 0
    /\ t <= a.endTime

\* a limit order validation that takes any size
validateLimitOrderAnySize(price64x64, size) ==
    price64x64 > 0

\* _validateLimitOrder(l, price64x64, size): the require statements
validateLimitOrder(price64x64, size) ==
    /\ price64x64 > 0
    /\ size >= minSize

\* _validateMarketOrder(l, auction, size, maxCost): the require statements;
\* mulu fails on a negative price
validateMarketOrder(a, size, maxCost, t) ==
    /\ size >= minSize
    /\ priceCurve64x64(a, t) >= 0
    /\ maxCost >= mulu(priceCurve64x64(a, t), size)

\* _addOrder(l, auction, epoch, price, size, isLimitOrder)
addOrder(e, price64x64, size, buyer) ==
    LET book == BookInsert(orderbooks[e], price64x64, size, buyer)
    IN  /\ orderbooks' = [orderbooks EXCEPT ![e] = book]
        /\ auctions' = [auctions EXCEPT ![e] =
              IF now >= @.startTime
              THEN finalizeAuctionInternal(@, book.list, now)
              ELSE @]
        /\ issued' = issued + 1

\* the buyers are interchangeable: the first order of a run is b1's
Callers == IF issued = 0 THEN {"b1"} ELSE Buyers

\* Auction.addLimitOrder(epoch, price, size) called by buyer
addLimitOrder(e, buyer, price64x64, size) ==
    /\ nonReentrant
    /\ limitOrdersAllowed(auctions[e], now)
    /\ validateLimitOrder(price64x64, size)
    /\ erc20' = [erc20 EXCEPT !.auction = @ + mulu(price64x64, size)]
    /\ addOrder(e, price64x64, size, buyer)

\* Auction.addLimitOrder(epoch, price, size), while fewer than cap orders
\* were issued
AddLimitOrderUpTo(cap) ==
    /\ issued < cap
    /\ \E e \in Epochs, buyer \in Callers, price64x64 \in LimitPrices,
          size \in Sizes :
         addLimitOrder(e, buyer, price64x64, size)
    /\ UNCHANGED <<now, vaultVars, longs, shorts, shares, claims, deposits,
                   withdrawn, isCall, inFlight, config, lpVars, queueEpoch,
                   pricePerShare>>

\* Auction.addLimitOrder(epoch, price, size)
AddLimitOrder == AddLimitOrderUpTo(MaxOrders)

\* Auction.addMarketOrder(epoch, size, maxCost) called by buyer
addMarketOrder(e, buyer, size, maxCost) ==
    LET price64x64 == priceCurve64x64(auctions[e], now)
        cost == mulu(price64x64, size)
    IN  /\ nonReentrant
        /\ marketOrdersAllowed(auctions[e], now)
        /\ validateMarketOrder(auctions[e], size, maxCost, now)
        /\ erc20' = [erc20 EXCEPT !.auction = @ + cost]
        /\ addOrder(e, price64x64, size, buyer)

\* Auction.addMarketOrder(epoch, size, maxCost)
AddMarketOrder ==
    /\ issued < MaxOrders
    /\ \E e \in Epochs, buyer \in Callers, size \in Sizes,
          maxCost \in MaxCosts :
         addMarketOrder(e, buyer, size, maxCost)
    /\ UNCHANGED <<now, vaultVars, longs, shorts, shares, claims, deposits,
                   withdrawn, isCall, inFlight, config, lpVars, queueEpoch,
                   pricePerShare>>

\* the ids a caller can pass to cancelLimitOrder: 0, the ids issued so far
\* and the next one
OrderIds(e) == 0 .. orderbooks[e].nextId

\* a cancelLimitOrder that does not ask who placed the order
cancelLimitOrderAnyBuyer(e, buyer, id) ==
    LET data == BookOrder(orderbooks[e], id)
        book == BookRemove(orderbooks[e], id)
        cost == mulu(data.price64x64, data.size)
    IN  /\ nonReentrant
        /\ limitOrdersAllowed(auctions[e], now)
        /\ id > 0
        /\ data.buyer # NoBuyer
        /\ erc20.auction >= cost
        /\ orderbooks' = [orderbooks EXCEPT ![e] = book]
        /\ auctions' = [auctions EXCEPT ![e] =
              IF now >= @.startTime
              THEN finalizeAuctionInternal(@, book.list, now)
              ELSE @]
        /\ erc20' = [erc20 EXCEPT !.auction = @ - cost]

\* Auction.cancelLimitOrder(epoch, id) called by buyer
cancelLimitOrder(e, buyer, id) ==
    LET data == BookOrder(orderbooks[e], id)
        book == BookRemove(orderbooks[e], id)
        cost == mulu(data.price64x64, data.size)
    IN  /\ nonReentrant
        /\ limitOrdersAllowed(auctions[e], now)
        /\ id > 0
        /\ data.buyer # NoBuyer
        /\ data.buyer = buyer
        /\ erc20.auction >= cost
        /\ orderbooks' = [orderbooks EXCEPT ![e] = book]
        /\ auctions' = [auctions EXCEPT ![e] =
              IF now >= @.startTime
              THEN finalizeAuctionInternal(@, book.list, now)
              ELSE @]
        /\ erc20' = [erc20 EXCEPT !.auction = @ - cost]

\* Auction.cancelLimitOrder(epoch, id)
CancelLimitOrder ==
    /\ \E e \in Epochs, buyer \in Buyers :
       \E id \in OrderIds(e) : cancelLimitOrder(e, buyer, id)
    /\ UNCHANGED <<now, vaultVars, issued, longs, shorts, shares, claims,
                   deposits, withdrawn, isCall, inFlight, config, lpVars,
                   queueEpoch, pricePerShare>>

\* spot prices the pool can report after expiry
Spots == {ONE}

\* a withdraw that does not wait for the hold period
withdrawAllowedNoHold(a, t) == a.status \in {PROCESSED, CANCELLED}

\* Auction.withdraw(epoch): the require statements
withdrawAllowed(a, t) ==
    /\ a.status \in {PROCESSED, CANCELLED}
    /\ a.status = PROCESSED => t >= a.processedTime + Hours24

\* _withdraw(l, epoch): what the buyer is sent, for the spot the pool reports
withdrawAmounts(a, list, buyer, spot64x64, t) ==
    LET pw == previewWithdraw(a, list, buyer, t)
        ex == getExerciseAmount(a, pw.fill, spot64x64, t)
    IN  [ok |-> pw.ok,
         refund |-> IF ex.expired THEN pw.refund + ex.amount ELSE pw.refund,
         fill |-> IF ex.expired THEN 0 ELSE pw.fill]

\* Auction.withdraw(epoch) goes through for the buyer
withdrawSucceeds(e, buyer, spot64x64) ==
    LET a == auctions[e]
        w == withdrawAmounts(a, orderbooks[e].list, buyer, spot64x64, now)
    IN  /\ withdrawAllowed(a, now)
        /\ w.ok
        /\ Bal(longs, a.longTokenId) >= w.fill
        /\ erc20.auction >= w.refund

\* Auction.withdraw(epoch)
Withdraw ==
    /\ nonReentrant
    /\ \E e \in Epochs, buyer \in Buyers, spot64x64 \in Spots :
         LET a == auctions[e]
             w == withdrawAmounts(a, orderbooks[e].list, buyer, spot64x64,
                                  now)
         IN  /\ withdrawSucceeds(e, buyer, spot64x64)
             /\ OrdersOf(orderbooks[e].list, buyer) # <<>>
             /\ orderbooks' = [orderbooks EXCEPT ![e].list =
                   SelectSeq(@, LAMBDA o : o.buyer # buyer)]
             /\ longs' = IF w.fill > 0
                         THEN SetBal(longs, a.longTokenId,
                                     Bal(longs, a.longTokenId) - w.fill)
                         ELSE longs
             /\ erc20' = [erc20 EXCEPT !.auction = @ - w.refund]
    /\ UNCHANGED <<now, vaultVars, auctions, issued, shorts, shares, claims,
                   deposits, withdrawn, isCall, inFlight, config, lpVars,
                   queueEpoch, pricePerShare>>

\* a finalizeAuction whose rescue branch does not look at the status first
finalizeAuctionAnyStatus(a, list, t) ==
    IF t >= a.endTime + Hours24 /\ a.status # UNINITIALIZED
    THEN cancel(a)
    ELSE IF t > a.startTime /\ a.status = INITIALIZED
    THEN finalizeAuctionInternal(a, list, t)
    ELSE a

\* a finalizeAuction that already acts at the start time
finalizeAuctionFromStart(a, list, t) ==
    IF t >= a.endTime + Hours24 /\ a.status \in {INITIALIZED, FINALIZED}
    THEN cancel(a)
    ELSE IF t >= a.startTime /\ a.status = INITIALIZED
    THEN finalizeAuctionInternal(a, list, t)
    ELSE a

\* Auction.finalizeAuction(epoch): what it makes of the auction
finalizeAuction(a, list, t) ==
    IF t >= a.endTime + Hours24 /\ a.status \in {INITIALIZED, FINALIZED}
    THEN cancel(a)
    ELSE IF t > a.startTime /\ a.status = INITIALIZED
    THEN finalizeAuctionInternal(a, list, t)
    ELSE a

\* Auction.finalizeAuction(epoch)
FinalizeAuction ==
    /\ \E e \in Epochs :
         /\ auctions' = [auctions EXCEPT ![e] =
               finalizeAuction(@, orderbooks[e].list, now)]
         /\ auctions' # auctions
    /\ UNCHANGED <<now, vaultVars, orderbooks, issued, tokenVars, isCall,
                   inFlight, config, lpVars, queueEpoch>>

\* ------------------------------------------------- Vault: withdraw, redeem

\* a lock that starts one tick late
withdrawalsLockedLate == (now > startTime) => auctionProcessed

\* modifier withdrawalsLocked: the call goes through unless the auction has
\* started and has not been processed
withdrawalsLocked == (now >= startTime) => auctionProcessed

\* _calculateDistributionAmount(assetAmount, collateralAmount, totalAssets)
calculateDistributionAmount(assetAmount, collateralAmount, total) ==
    LET assetRatio64x64 == IF collateralAmount > 0
                           THEN divu(collateralAmount, total) ELSE 0
    IN  IF assetRatio64x64 > 0 THEN mulu(assetRatio64x64, assetAmount) ELSE 0

\* amounts the LP asks to withdraw, and shares the LP asks to redeem
WithdrawAmounts == {0, 2}

\* _withdraw(caller, receiver, owner, assetAmount, shareAmount): the LP's
\* claim tokens are redeemed, the shares burnt, and the collateral and short
\* contracts sent to the receiver and the fee recipient
vaultWithdraw(assetAmount, shareAmount) ==
    LET collateralAmount ==
            calculateDistributionAmount(assetAmount, totalCollateral,
                                        totalAssets)
        shortAsCollateral ==
            calculateDistributionAmount(assetAmount, totalShortAsCollateral,
                                        totalAssets)
        shortContracts ==
            fromCollateralToContracts(shortAsCollateral, isCall,
                                      lastOption.strike64x64)
    IN  /\ epoch > 0
        /\ shareAmount > 0 => withdrawn < MaxWithdrawals
        /\ withdrawn' = IF shareAmount > 0 THEN withdrawn + 1 ELSE withdrawn
        /\ SharesAfterRedeemMax.lp >= shareAmount
        /\ erc20.vault >= collateralAmount
        /\ totalShortAsContracts >= shortContracts
        /\ shares' = [SharesAfterRedeemMax EXCEPT !.lp = @ - shareAmount]
        /\ claims' = ClaimsAfterRedeemMax
        /\ totalWithdrawals' = totalWithdrawals + assetAmount
        /\ erc20' = [erc20 EXCEPT !.vault = @ - collateralAmount]
        /\ shorts' = IF shortContracts > 0
                     THEN SetBal(shorts, lastOption.shortTokenId,
                                 totalShortAsContracts - shortContracts)
                     ELSE shorts

\* Vault.withdraw(assetAmount, receiver, owner) by the LP
VaultWithdraw ==
    /\ withdrawalsLocked
    /\ \E assetAmount \in WithdrawAmounts :
         /\ assetAmount <= convertToAssets(shares.lp)
         /\ vaultWithdraw(assetAmount, previewWithdrawShares(assetAmount))
    /\ UNCHANGED <<now, epoch, startTime, auctionProcessed, lastTotalAssets,
                   options, auctionVars, longs, deposits, isCall, inFlight,
                   config, lpVars, queueEpoch, pricePerShare>>

\* Vault.redeem(shareAmount, receiver, owner) by the LP
VaultRedeem ==
    /\ withdrawalsLocked
    /\ \E shareAmount \in WithdrawAmounts :
         /\ shareAmount <= shares.lp
         /\ vaultWithdraw(convertToAssets(shareAmount), shareAmount)
    /\ UNCHANGED <<now, epoch, startTime, auctionProcessed, lastTotalAssets,
                   options, auctionVars, longs, deposits, isCall, inFlight,
                   config, lpVars, queueEpoch, pricePerShare>>

\* ------------------------------------------------------------------- Next

Next ==
    \/ Tick
    \/ QueueDeposit
    \/ InitializeAuction
    \/ InitializeEpoch
    \/ ProcessAuction
    \/ AddLimitOrder
    \/ AddMarketOrder
    \/ CancelLimitOrder
    \/ Withdraw
    \/ FinalizeAuction
    \/ VaultWithdraw
    \/ VaultRedeem

Spec == Init /\ [][Next]_vars

\* the system where the buyers place limit orders only and keep them, and
\* the LP leaves the deposit in the vault: this leaves room for one more
\* order
LimitNext ==
    \/ Tick
    \/ QueueDeposit
    \/ InitializeAuction
    \/ InitializeEpoch
    \/ ProcessAuction
    \/ AddLimitOrderUpTo(MaxLimitOrders)
    \/ Withdraw
    \/ FinalizeAuction

LimitSpec == Init /\ [][LimitNext]_vars

\* the system of the order book: the keeper initializes auctions and epochs,
\* the buyers place and cancel orders and anyone finalizes; no auction is
\* processed and nobody withdraws, which leaves room for one more epoch
BookNext ==
    \/ Tick
    \/ QueueDeposit
    \/ InitializeAuction
    \/ InitializeEpochUpTo(MaxBookEpoch)
    \/ AddLimitOrder
    \/ AddMarketOrder
    \/ CancelLimitOrder
    \/ FinalizeAuction

BookSpec == Init /\ [][BookNext]_vars

\* what a vault can hand to Auction.initialize: valid and invalid windows,
\* expiries, strikes and long token ids
InitAuctions ==
    [epoch : 0 .. MaxAuctionEpoch,
     expiry : {1, 50},
     strike64x64 : {0 - ONE, 0, 2 * ONE},
     longTokenId : {NoToken, formatTokenId(LONG_CALL, 50, 2 * ONE)},
     startTime : {2, 4},
     endTime : {4}]

\* what a vault can hand to Auction.setAuctionPrices
AnyPrices == {0 - ONE, 0, ONE, 3 * ONE}

\* Auction.initialize(initAuction), called by the vault with any argument
AuctionInitialize ==
    /\ \E init \in InitAuctions :
         /\ auctions[init.epoch].status = UNINITIALIZED
         /\ auctions' = [auctions EXCEPT ![init.epoch] =
                            initialize(@, init, now)]
    /\ UNCHANGED <<now, vaultVars, orderbooks, issued, tokenVars, isCall,
                   inFlight, config, lpVars, queueEpoch>>

\* Auction.setAuctionPrices(epoch, maxPrice64x64, minPrice64x64), called by
\* the vault with any argument
AuctionSetPrices ==
    /\ \E e \in 0 .. MaxAuctionEpoch, maxPrice \in AnyPrices,
          minPrice \in AnyPrices :
         /\ auctions[e].status = INITIALIZED
         /\ auctions' = [auctions EXCEPT ![e] =
                            setAuctionPrices(@, maxPrice, minPrice)]
    /\ UNCHANGED <<now, vaultVars, orderbooks, issued, tokenVars, isCall,
                   inFlight, config, lpVars, queueEpoch>>

\* the system of the Auction contract alone, its vault-only calls made with
\* any arguments
AuctionNext ==
    \/ Tick
    \/ AuctionInitialize
    \/ AuctionSetPrices
    \/ FinalizeAuction

AuctionSpec == Init /\ [][AuctionNext]_vars

\* the auction windows and the (max, min) price pairs of the auctions whose
\* price curve is followed hour by hour, and the collateral of their vault
CurveWindows == {<<2, 3>>, <<2, 5>>, <<3, 7>>}
CurvePrices == {<<3 * ONE, ONE>>, <<3 * ONE + 1, ONE + 2>>, <<ONE + 1, ONE>>}
CurveDeposit == 10

\* the system after one deposit, initializeAuction and initializeEpoch, for
\* any window offsets of the vault and any valid answer of the pricer
CurveInitWith(deposit) ==
    \E w \in CurveWindows, p \in CurvePrices :
        LET expiry == getNextFriday(0)
            strike == 2 * ONE
            longId == formatTokenId(LONG_CALL, expiry, strike)
            shortId == formatTokenId(SHORT_CALL, expiry, strike)
        IN  /\ now = 0
            /\ isCall = TRUE
            /\ epoch = 1
            /\ queueEpoch = 1
            /\ startTime = w[1]
            /\ auctionProcessed = FALSE
            /\ lastTotalAssets = 0
            /\ totalWithdrawals = 0
            /\ options = [e \in Epochs |->
                  IF e = 0
                  THEN [expiry |-> expiry, strike64x64 |-> strike,
                        longTokenId |-> longId, shortTokenId |-> shortId]
                  ELSE ZeroOption]
            /\ auctions = [e \in Epochs |->
                  IF e = 0
                  THEN [ZeroAuction EXCEPT !.status = INITIALIZED,
                                           !.expiry = expiry,
                                           !.strike64x64 = strike,
                                           !.startTime = w[1],
                                           !.endTime = w[2],
                                           !.longTokenId = longId,
                                           !.maxPrice64x64 = p[1],
                                           !.minPrice64x64 = p[2]]
                  ELSE ZeroAuction]
            /\ orderbooks = [e \in Epochs |-> EmptyBook]
            /\ issued = 0
            /\ erc20 = [vault |-> deposit, auction |-> 0, queue |-> 0]
            /\ longs = <<>>
            /\ shorts = <<>>
            /\ shares = [lp |-> 0, queue |-> deposit]
            /\ claims = [e \in Epochs |-> IF e = 0 THEN deposit ELSE 0]
            /\ deposits = 1
            /\ withdrawn = 0
            /\ pricePerShare = [e \in Epochs |->
                                   IF e = 0 THEN PpsScale ELSE 0]
            /\ InitDepositors
            /\ config = InitConfig
            /\ inFlight = NoOrder

CurveInit == CurveInitWith(CurveDeposit)

\* block.timestamp advances by an hour, until the auction is over
TickHour ==
    /\ inFlight = NoOrder
    /\ now <= auctions[0].endTime
    /\ now' = now + 1
    /\ UNCHANGED <<vaultVars, auctionVars, tokenVars, isCall, inFlight,
                   config, lpVars, queueEpoch>>

\* the system of an auction whose market orders are taken along its price
\* curve
CurveNext ==
    \/ TickHour
    \/ AddMarketOrder

CurveSpec == CurveInit /\ [][CurveNext]_vars

\* limit prices below the minimum price of every auction of CurvePrices
LowPrices == {1, 2}

\* Auction.addLimitOrder(epoch, price64x64, size) with a low price
AddLowLimitOrder ==
    /\ issued < MaxOrders
    /\ \E buyer \in Buyers, price64x64 \in LowPrices, size \in Sizes :
         addLimitOrder(0, buyer, price64x64, size)
    /\ UNCHANGED <<now, vaultVars, longs, shorts, shares, claims, deposits,
                   withdrawn, isCall, inFlight, config, lpVars, queueEpoch,
                   pricePerShare>>

\* the system of an auction that takes orders along its price curve and is
\* finalized during its window or after it
ClearingNext ==
    \/ TickHour
    \/ AddLowLimitOrder
    \/ AddMarketOrder
    \/ FinalizeAuction

ClearingSpec == CurveInit /\ [][ClearingNext]_vars

\* collateral for two contracts, which one order can take whole
SmallDeposit == 2

\* Auction.addLimitOrder(epoch, price64x64, size) sent with more ETH than
\* the cost, up to the refund of _wrapNativeToken: the checks have passed
\* and the caller's code runs before the order is inserted
AddLimitOrderRefund ==
    /\ nonReentrant
    /\ issued < MaxOrders
    /\ \E buyer \in Buyers, price64x64 \in LimitPrices, size \in Sizes :
         /\ limitOrdersAllowed(auctions[0], now)
         /\ validateLimitOrder(price64x64, size)
         /\ inFlight' = [buyer |-> buyer, epoch |-> 0,
                         price64x64 |-> price64x64, size |-> size]
    /\ UNCHANGED <<now, vaultVars, auctionVars, tokenVars, isCall, config,
                   lpVars, queueEpoch>>

\* the refund returns: the ETH of the cost is wrapped, nothing is left to
\* pull from the caller, and _addOrder inserts the order
AddOrderReturn ==
    /\ inFlight # NoOrder
    /\ erc20' = [erc20 EXCEPT
          !.auction = @ + mulu(inFlight.price64x64, inFlight.size)]
    /\ addOrder(inFlight.epoch, inFlight.price64x64, inFlight.size,
                inFlight.buyer)
    /\ inFlight' = NoOrder
    /\ UNCHANGED <<now, vaultVars, longs, shorts, shares, claims, deposits,
                   withdrawn, isCall, config, lpVars, queueEpoch,
                   pricePerShare>>

\* the system of an auction whose buyers pay in ETH: finalizeAuction has no
\* reentrancy guard and can be called from the refund
ReentrantNext ==
    \/ TickHour
    \/ AddLimitOrder
    \/ AddLimitOrderRefund
    \/ FinalizeAuction
    \/ AddOrderReturn

ReentrantSpec == CurveInitWith(SmallDeposit) /\ [][ReentrantNext]_vars

\* the prices put in the order book taken on its own
BookPrices == {0, ONE, 2 * ONE}

\* TestOrderBook.insert(price64x64, amount, buyer)
TestInsert ==
    /\ orderbooks[0].nextId <= MaxBookOrders
    /\ \E price64x64 \in BookPrices :
         orderbooks' = [orderbooks EXCEPT ![0] =
                           BookInsert(@, price64x64, 1, "b1")]
    /\ UNCHANGED <<now, vaultVars, auctions, issued, tokenVars, isCall,
                   inFlight, config, lpVars, queueEpoch>>

\* TestOrderBook.remove(id)
TestRemove ==
    /\ \E id \in OrderIds(0) :
         /\ BookOrder(orderbooks[0], id).buyer # NoBuyer
         /\ orderbooks' = [orderbooks EXCEPT ![0] = BookRemove(@, id)]
    /\ UNCHANGED <<now, vaultVars, auctions, issued, tokenVars, isCall,
                   inFlight, config, lpVars, queueEpoch>>

\* the system of an order book taken on its own: any sequence of inserts
\* and removes
OrderBookNext ==
    \/ TestInsert
    \/ TestRemove

OrderBookSpec == Init /\ [][OrderBookNext]_vars

\* the timestamps at which the keeper first calls initializeAuction: every
\* hour of MaxWeeks weeks from 1 January 1970, a Thursday
CalendarTimes == 0 .. (MaxWeeks * 7 * Day)

\* the system of the calendar: the vault is deployed at any hour and the
\* keeper initializes its first auction, which _getFriday and
\* _getNextFriday place
FridayInit == \E t \in CalendarTimes : InitAt(t)

FridayNext == InitializeAuction

FridaySpec == FridayInit /\ [][FridayNext]_vars

\* the system of the keeper's cycle over more than one epoch: auctions are
\* initialized, filled by market orders, finalized and processed; in the
\* second cycle the vault holds collateral before the prices of the new
\* auction are set
ProcessNext ==
    \/ Tick
    \/ QueueDeposit
    \/ InitializeAuction
    \/ InitializeEpochUpTo(MaxBookEpoch)
    \/ AddMarketOrder
    \/ FinalizeAuction
    \/ ProcessAuction

ProcessSpec == Init /\ [][ProcessNext]_vars

\* the queue with its depositors, over the epochs the keeper opens
QueueNext ==
    \/ InitializeAuction
    \/ InitializeEpochUpTo(MaxBookEpoch)
    \/ DepositBy
    \/ CancelBy
    \/ RedeemBy
    \/ TransferToVault

QueueSpec == Init /\ [][QueueNext]_vars

\* the owner's setters on their own
ConfigNext ==
    \/ SetAuctionWindowOffsets
    \/ SetDelta64x64
    \/ SetDeltaOffset64x64
    \/ SetPerformanceFee64x64
    \/ SetWithdrawalFee64x64

ConfigSpec == Init /\ [][ConfigNext]_vars

\* the keeper's cycle with anyone's finalizeAuction, where calls keep being
\* made as long as one of them goes through
CycleNext ==
    \/ Tick
    \/ QueueDeposit
    \/ InitializeAuction
    \/ InitializeEpochUpTo(MaxBookEpoch)
    \/ FinalizeAuction
    \/ ProcessAuction

CycleSpec == Init /\ [][CycleNext]_vars /\ WF_vars(CycleNext)

\* ------------------------------------------------------- auction status

\* the status changes the state machine of the auction allows
StatusSteps ==
    {<<UNINITIALIZED, INITIALIZED>>, <<UNINITIALIZED, CANCELLED>>,
     <<INITIALIZED, FINALIZED>>, <<INITIALIZED, CANCELLED>>,
     <<FINALIZED, PROCESSED>>, <<FINALIZED, CANCELLED>>}

\* C1: the status of an auction only ever changes along Uninitialized ->
\* Initialized, Uninitialized -> Cancelled, Initialized -> Finalized,
\* Initialized -> Cancelled, Finalized -> Processed and Finalized ->
\* Cancelled; in particular Processed and Cancelled are never left
C1_StatusTransitions ==
    [][\A e \in Epochs :
          auctions'[e].status # auctions[e].status =>
              <<auctions[e].status, auctions'[e].status>> \in StatusSteps]_vars

\* one auction went all the way to Processed and the next one was cancelled,
\* and time has passed the rescue delay of both
C1_Witness ==
    /\ auctions[0].status = PROCESSED
    /\ auctions[1].status = CANCELLED
    /\ auctions[1].endTime > 0
    /\ now >= auctions[0].endTime + Hours24

\* ------------------------------------------------------- withdrawal lock

\* the auction the vault last stamped has started and is not processed
LockActive == now >= startTime /\ ~auctionProcessed

\* C2: in every reachable state where now >= startTime and auctionProcessed
\* is false, no vault withdraw and no vault redeem of the LP goes through,
\* so none moves shares or assets
C2_LockedWithdrawFails ==
    LockActive => ~ENABLED (VaultWithdraw \/ VaultRedeem)

\* the lock is active while the LP holds redeemed shares that the vault
\* could pay out at once
C2_Witness ==
    /\ LockActive
    /\ epoch > 0
    /\ shares.lp >= 2
    /\ convertToAssets(shares.lp) >= 2
    /\ erc20.vault >= 2

\* the auction of epoch e has started and the keeper has not processed it:
\* processAuction leaves an auction it processed Processed or Cancelled
StartedUnprocessed(e) ==
    /\ auctions[e].status \in {INITIALIZED, FINALIZED}
    /\ now >= auctions[e].startTime

\* C3: from the startTime of an auction the keeper initialized until the
\* keeper's processAuction for that auction succeeds, no vault withdraw or
\* redeem goes through, whichever other keeper commands came in between
C3_LockWindow ==
    (\E e \in Epochs : StartedUnprocessed(e))
        => ~ENABLED (VaultWithdraw \/ VaultRedeem)

\* ------------------------------------------------------- keeper commands

\* the keeper command that went through last, read off the vault's state:
\* only processAuction sets auctionProcessed, only initializeAuction clears
\* it and initializes the auction of the current epoch, and only
\* initializeEpoch moves on to an epoch whose auction is uninitialized
LastKeeperCommand ==
    IF auctionProcessed THEN "processAuction"
    ELSE IF auctions[epoch].status # UNINITIALIZED THEN "initializeAuction"
    ELSE IF epoch > 0 THEN "initializeEpoch"
    ELSE "none"

\* C4: the keeper commands take effect only in the cyclic order
\* initializeAuction -> initializeEpoch -> processAuction: each one goes
\* through only when the previous one of the cycle was the last to go through
C4_KeeperOrder ==
    [][/\ InitializeAuction =>
             LastKeeperCommand \in {"none", "processAuction"}
       /\ InitializeEpoch => LastKeeperCommand = "initializeAuction"
       /\ ProcessAuction => LastKeeperCommand = "initializeEpoch"]_vars

\* C5: processAuction goes through at most once for an auction: while the
\* auction stays processed (no initializeAuction has cleared the flag) no
\* step overwrites lastTotalAssets
C5_ProcessOnce ==
    [][(auctionProcessed /\ auctionProcessed')
          => lastTotalAssets' = lastTotalAssets]_vars

\* --------------------------------------------------------------- premiums

\* C6: the totalPremiums of a Finalized or Processed auction is 0 or exactly
\* lastPrice x totalContractsSold, and premiums move from the auction to the
\* vault at most once per epoch: totalPremiums is written once, by the step
\* that takes the auction from Finalized to Processed and sends that amount
\* to the vault, and transferPremium is refused from then on
C6_PremiumsOnce ==
    [][\A e \in Epochs :
          LET a == auctions[e]
              b == auctions'[e]
          IN  /\ b.status \in {FINALIZED, PROCESSED} =>
                    b.totalPremiums \in
                        {0, mulu(b.lastPrice64x64, b.totalContractsSold)}
              /\ b.totalPremiums # a.totalPremiums =>
                    /\ a.status = FINALIZED /\ a.totalPremiums = 0
                    /\ b.status = PROCESSED
                    /\ erc20'.auction = erc20.auction - b.totalPremiums
                    /\ ~transferPremiumAllowed(b)
              /\ a.status = PROCESSED =>
                    /\ b.totalPremiums = a.totalPremiums
                    /\ ~transferPremiumAllowed(b)]_vars

\* an auction was processed with contracts sold and premiums transferred
C6_Witness ==
    \E e \in Epochs :
        /\ auctions[e].status = PROCESSED
        /\ auctions[e].totalContractsSold > 0
        /\ auctions[e].totalPremiums > 0
        /\ auctions[e].totalPremiums =
               mulu(auctions[e].lastPrice64x64, auctions[e].totalContractsSold)

\* ---------------------------------------------------- cancelled auctions

\* the buyers with orders in the book of epoch e
BuyersIn(e) == {b \in Buyers : OrdersOf(orderbooks[e].list, b) # <<>>}

\* C7: for a Cancelled auction the withdraw of every buyer with orders in
\* the book goes through, and returns the sum of price x size over the
\* buyer's orders as refund and a fill of 0
C7_CancelledRefund ==
    \A e \in Epochs : \A b \in BuyersIn(e) : \A spot64x64 \in Spots :
        auctions[e].status = CANCELLED =>
            LET w == withdrawAmounts(auctions[e], orderbooks[e].list, b,
                                     spot64x64, now)
            IN  /\ withdrawSucceeds(e, b, spot64x64)
                /\ w.refund = PaidFor(OrdersOf(orderbooks[e].list, b))
                /\ w.fill = 0

\* ------------------------------------------------------- contracts sold

\* C8: after any sequence of addLimitOrder, addMarketOrder, cancelLimitOrder
\* and finalizeAuction calls, totalContractsSold <= totalContracts holds for
\* every epoch
C8_SoldAtMostTotal ==
    \A e \in Epochs :
        auctions[e].totalContractsSold <= auctions[e].totalContracts

\* the orders of a book ask for more contracts than the auction has, and the
\* auction sold all it has
C8_Witness ==
    \E e \in Epochs :
        /\ Len(orderbooks[e].list) = 2
        /\ orderbooks[e].list[1].size + orderbooks[e].list[2].size
               > auctions[e].totalContracts
        /\ auctions[e].totalContracts > 0
        /\ auctions[e].totalContractsSold = auctions[e].totalContracts

\* C9: within an epoch totalContractsSold never decreases: no step leaves
\* the stored value lower than it was
C9_SoldMonotone ==
    [][\A e \in Epochs :
          auctions'[e].totalContractsSold
              >= auctions[e].totalContractsSold]_vars

\* C9, amended: totalContractsSold is lowered only by a traversal of the
\* book of an Initialized auction that has started, and only when a
\* cancelLimitOrder took an order out of the book, or when the price curve
\* stands above the last price at which contracts were counted (the prices
\* of the auction were set after orders had been counted)
C9_SoldMonotoneButCancel ==
    [][\A e \in Epochs :
          auctions'[e].totalContractsSold < auctions[e].totalContractsSold
              => /\ auctions[e].status = INITIALIZED
                 /\ now >= auctions[e].startTime
                 /\ \/ /\ CancelLimitOrder
                       /\ Len(orderbooks'[e].list) < Len(orderbooks[e].list)
                    \/ priceCurve64x64(auctions[e], now)
                          > auctions[e].lastPrice64x64]_vars

\* a second order raised the contracts sold of an auction that is still
\* taking orders
C9_Witness ==
    \E e \in Epochs :
        /\ auctions[e].status = INITIALIZED
        /\ Len(orderbooks[e].list) = 2
        /\ auctions[e].totalContractsSold
               = orderbooks[e].list[1].size + orderbooks[e].list[2].size

\* --------------------------------------------------------- total contracts

C11_WithdrawOnlyWhenOpen ==
    [][\A e \in Epochs :
          (Withdraw /\ orderbooks'[e] # orderbooks[e]) =>
              /\ auctions[e].status \in {PROCESSED, CANCELLED}
              /\ auctions[e].status = PROCESSED =>
                    now >= auctions[e].processedTime + Hours24]_vars

\* a buyer has taken long tokens out of a Processed auction after the hold
\* period
C11_Witness ==
    \E e \in Epochs :
        /\ auctions[e].status = PROCESSED
        /\ now >= auctions[e].processedTime + Hours24
        /\ auctions[e].totalContractsSold > 0
        /\ Bal(longs, auctions[e].longTokenId) < auctions[e].totalContractsSold

\* the total size of the orders of a list
RECURSIVE SizeOf(_)
SizeOf(list) ==
    IF list = <<>> THEN 0 ELSE Head(list).size + SizeOf(Tail(list))

C13_PreviewIsWithdraw ==
    \A e \in Epochs : \A b \in BuyersIn(e) : \A spot64x64 \in Spots :
        LET a == auctions[e]
            pw == previewWithdraw(a, orderbooks[e].list, b, now)
            w == withdrawAmounts(a, orderbooks[e].list, b, spot64x64, now)
        IN  withdrawSucceeds(e, b, spot64x64)
            => /\ pw.ok
               /\ pw.refund = w.refund
               /\ pw.fill = w.fill

\* ------------------------------------------------------- finalize-check

\* the orders of a book priced at or above a price: a prefix, as the book is
\* kept in descending price order
AtOrAbove(list, price64x64) ==
    SelectSeq(list, LAMBDA o : o.price64x64 >= price64x64)

\* the position of the first order at which the accumulated size reaches
\* the total
ReachedAt(list, total) ==
    CHOOSE k \in 1 .. Len(list) :
        /\ SizeOf(SubSeq(list, 1, k)) >= total
        /\ \A j \in 1 .. (k - 1) : SizeOf(SubSeq(list, 1, j)) < total

\* C14: when an order insertion or a cancelLimitOrder goes through at
\* now >= startTime and the sizes of the orders priced at or above the
\* clearing price, accumulated from the head of the book, reach
\* totalContracts, that same call leaves the auction Finalized with
\* lastPrice the price of the order at which the total was reached and
\* totalContractsSold = totalContracts
C14_FinalizeCheck ==
    [][\A e \in Epochs :
          LET a == auctions[e]
              total == getTotalContracts(a)
              accepted == AtOrAbove(orderbooks'[e].list,
                                    clearingPrice64x64(a, now))
          IN  (/\ AddLimitOrder \/ AddMarketOrder \/ CancelLimitOrder
               /\ orderbooks'[e] # orderbooks[e]
               /\ now >= a.startTime
               /\ accepted # <<>>
               /\ SizeOf(accepted) >= total)
              => /\ auctions'[e].status = FINALIZED
                 /\ auctions'[e].totalContracts = total
                 /\ auctions'[e].totalContractsSold = total
                 /\ auctions'[e].lastPrice64x64 =
                        accepted[ReachedAt(accepted, total)].price64x64]_vars

\* an auction was finalized by its orders before its end time, the second
\* order of the book reaching the total
C14_Witness ==
    \E e \in Epochs :
        /\ auctions[e].status = FINALIZED
        /\ now <= auctions[e].endTime
        /\ auctions[e].totalContracts > 0
        /\ auctions[e].totalContractsSold = auctions[e].totalContracts
        /\ Len(orderbooks[e].list) = 2
        /\ orderbooks[e].list[1].size < auctions[e].totalContracts

\* ------------------------------------------------------ finalizeAuction

\* the smaller of two numbers
Min(x, y) == IF x <= y THEN x ELSE y

\* C15: finalizeAuction changes nothing while the auction is Uninitialized
\* or while now <= startTime; on an Initialized auction after endTime and
\* before endTime + 24h it always leaves the auction Finalized, with
\* totalContractsSold the accumulated size of the accepted orders (at most
\* totalContracts), whether the book is empty, under-filled or full
C15_FinalizeAfterEnd ==
    /\ [](\A e \in Epochs :
            (/\ auctions[e].status = INITIALIZED
             /\ now > auctions[e].endTime
             /\ now < auctions[e].endTime + Hours24)
            => ENABLED (/\ FinalizeAuction
                        /\ auctions'[e].status = FINALIZED))
    /\ [][\A e \in Epochs :
            LET a == auctions[e]
                accepted == AtOrAbove(orderbooks[e].list,
                                      clearingPrice64x64(a, now))
            IN  (FinalizeAuction /\ auctions'[e] # a)
                => /\ a.status # UNINITIALIZED
                   /\ now > a.startTime
                   /\ (/\ a.status = INITIALIZED
                       /\ now > a.endTime
                       /\ now < a.endTime + Hours24)
                      => /\ auctions'[e].status = FINALIZED
                         /\ auctions'[e].totalContractsSold =
                                Min(SizeOf(accepted),
                                    getTotalContracts(a))]_vars

\* an auction was finalized after its end time with fewer contracts sold
\* than it offered
C15_Witness ==
    \E e \in Epochs :
        /\ auctions[e].status = FINALIZED
        /\ now > auctions[e].endTime
        /\ now < auctions[e].endTime + Hours24
        /\ orderbooks[e].list # <<>>
        /\ auctions[e].totalContractsSold > 0
        /\ auctions[e].totalContractsSold < auctions[e].totalContracts

\* C16: finalizeAuction at now >= endTime + 24h, by any account, takes an
\* Initialized or Finalized auction to Cancelled with lastPrice the largest
\* int128 and totalPremiums 0, and leaves a Processed or Cancelled auction
\* as it is
C16_RescueCancels ==
    /\ [](\A e \in Epochs :
            (/\ auctions[e].status \in {INITIALIZED, FINALIZED}
             /\ now >= auctions[e].endTime + Hours24)
            => ENABLED (/\ FinalizeAuction
                        /\ auctions'[e].status = CANCELLED))
    /\ [][\A e \in Epochs :
            LET a == auctions[e]
            IN  (FinalizeAuction /\ auctions'[e] # a)
                => /\ a.status \notin {PROCESSED, CANCELLED}
                   /\ now >= a.endTime + Hours24
                      => /\ a.status \in {INITIALIZED, FINALIZED}
                         /\ auctions'[e] =
                                [a EXCEPT !.status = CANCELLED,
                                          !.lastPrice64x64 = Int128Max,
                                          !.totalPremiums = 0]]_vars

\* an auction that had sold contracts was cancelled 24 hours after its end
C16_Witness ==
    \E e \in Epochs :
        /\ auctions[e].status = CANCELLED
        /\ auctions[e].startTime < auctions[e].endTime
        /\ now >= auctions[e].endTime + Hours24
        /\ auctions[e].totalContractsSold > 0
        /\ auctions[e].lastPrice64x64 = Int128Max
        /\ auctions[e].totalPremiums = 0

\* ------------------------------------------------ Vault.processAuction

\* C17: the keeper's processAuction goes through only when the auction of
\* the last epoch is Finalized or Cancelled; while it is Uninitialized,
\* Initialized or Processed the call fails, and lastTotalAssets and
\* auctionProcessed are not written
C17_ProcessNeedsFinalOrCancelled ==
    /\ [](auctions[lastEpoch].status \in
              {UNINITIALIZED, INITIALIZED, PROCESSED}
          => ~ENABLED ProcessAuction)
    /\ [][LET closed == auctions[lastEpoch].status \in {FINALIZED, CANCELLED}
          IN  /\ ProcessAuction => closed
              /\ lastTotalAssets' # lastTotalAssets => closed
              /\ (~auctionProcessed /\ auctionProcessed') => closed]_vars

\* processAuction went through on a Cancelled auction
C17_Witness ==
    /\ auctionProcessed
    /\ now >= startTime
    /\ auctions[lastEpoch].status = CANCELLED
    /\ lastTotalAssets > 0

\* C18: an auction becomes Processed only from Finalized and, when it sold
\* contracts, only with totalPremiums > 0 and at least totalContractsSold
\* long tokens of its longTokenId held by the auction; the step records
\* processedTime
C18_ProcessedFromFinalized ==
    [][\A e \in Epochs :
          LET a == auctions[e]
              b == auctions'[e]
          IN  (b.status = PROCESSED /\ a.status # PROCESSED)
              => /\ a.status = FINALIZED
                 /\ b.processedTime = now
                 /\ b.totalContractsSold = a.totalContractsSold
                 /\ b.totalContractsSold > 0 =>
                       /\ b.totalPremiums > 0
                       /\ Bal(longs', b.longTokenId)
                              >= b.totalContractsSold]_vars

\* an auction that sold contracts was processed after its start
C18_Witness ==
    \E e \in Epochs :
        /\ auctions[e].status = PROCESSED
        /\ auctions[e].totalContractsSold > 0
        /\ auctions[e].processedTime > auctions[e].startTime
        /\ auctions[e].processedTime <= now

\* ------------------------------------------- initialize, setAuctionPrices

\* C19: initialize goes through only on an Uninitialized auction and
\* setAuctionPrices only on an Initialized one; with invalid parameters
\* (startTime >= endTime, now > startTime, now > expiry, strike <= 0,
\* longTokenId <= 0; maxPrice <= 0, minPrice <= 0, maxPrice <= minPrice)
\* they do not fail but leave the auction Cancelled with lastPrice the
\* largest int128
C19_InvalidParametersCancel ==
    [][\A e \in Epochs :
          LET a == auctions[e]
              b == auctions'[e]
              cancelled == /\ b.status = CANCELLED
                           /\ b.lastPrice64x64 = Int128Max
          IN  /\ (AuctionInitialize /\ b # a)
                  => /\ a.status = UNINITIALIZED
                     /\ \/ cancelled
                        \/ /\ b.status = INITIALIZED
                           /\ b.startTime < b.endTime
                           /\ now <= b.startTime
                           /\ now <= b.expiry
                           /\ b.strike64x64 > 0
                           /\ b.longTokenId # NoToken
              /\ (AuctionSetPrices /\ b # a)
                  => /\ a.status = INITIALIZED
                     /\ IF \/ b.maxPrice64x64 <= 0
                           \/ b.minPrice64x64 <= 0
                           \/ b.maxPrice64x64 <= b.minPrice64x64
                        THEN cancelled
                        ELSE b.status = INITIALIZED]_vars

\* an initialized auction was cancelled by setAuctionPrices with equal
\* prices, next to one cancelled by initialize
C19_Witness ==
    \E e1, e2 \in Epochs :
        /\ auctions[e1].status = CANCELLED
        /\ auctions[e1].startTime < auctions[e1].endTime
        /\ auctions[e1].maxPrice64x64 > 0
        /\ auctions[e1].maxPrice64x64 = auctions[e1].minPrice64x64
        /\ auctions[e1].lastPrice64x64 = Int128Max
        /\ auctions[e2].status = CANCELLED
        /\ auctions[e2].endTime = 0
        /\ auctions[e2].lastPrice64x64 = Int128Max

\* C20: every Finalized or Processed auction has maxPrice > minPrice > 0:
\* no auction is finalized while its prices are unset or invalid
C20_FinalizedHasPrices ==
    \A e \in Epochs :
        auctions[e].status \in {FINALIZED, PROCESSED}
            => /\ auctions[e].maxPrice64x64 > auctions[e].minPrice64x64
               /\ auctions[e].minPrice64x64 > 0

\* ----------------------------------------------------------- order entry

Without(list, i) == SubSeq(list, 1, i - 1) \o SubSeq(list, i + 1, Len(list))

\* C22: cancelLimitOrder(epoch, id) goes through only for the buyer who
\* placed order id, only for an id > 0 present in the book and only while
\* the auction is Initialized and now <= endTime; it removes that order
\* alone and sends price x size of it back out of the auction, and changes
\* no other book and no other balance
C22_CancelLimitOrder ==
    /\ [](\A e \in Epochs, b \in Buyers : \A id \in OrderIds(e) :
            ~(/\ auctions[e].status = INITIALIZED
              /\ now <= auctions[e].endTime
              /\ id > 0
              /\ \E i \in 1 .. Len(orderbooks[e].list) :
                    /\ orderbooks[e].list[i].id = id
                    /\ orderbooks[e].list[i].buyer = b)
            => ~ENABLED cancelLimitOrder(e, b, id))
    /\ [][\A e \in Epochs :
            (CancelLimitOrder /\ orderbooks'[e] # orderbooks[e])
            => /\ \E i \in 1 .. Len(orderbooks[e].list) :
                    LET o == orderbooks[e].list[i]
                    IN  /\ orderbooks'[e].list =
                               Without(orderbooks[e].list, i)
                        /\ erc20'.auction = erc20.auction
                               - ((o.price64x64 * o.size) \div ONE)
               /\ orderbooks'[e].nextId = orderbooks[e].nextId
               /\ erc20'.vault = erc20.vault
               /\ erc20'.queue = erc20.queue
               /\ \A e2 \in Epochs \ {e} :
                     orderbooks'[e2] = orderbooks[e2]]_vars

\* one of two orders placed in a book was cancelled, and the auction, still
\* open, holds what the other order paid
C22_Witness ==
    \E e \in Epochs :
        /\ auctions[e].status = INITIALIZED
        /\ orderbooks[e].nextId = 3
        /\ Len(orderbooks[e].list) = 1
        /\ erc20.auction = mulu(orderbooks[e].list[1].price64x64,
                                orderbooks[e].list[1].size)

\* ------------------------------------------------------------ epoch counter

\* C23: the vault epoch starts at 0, never decreases, and moves only by an
\* initializeEpoch that goes through, which adds exactly 1; after every
\* initializeEpoch the epoch of the queue is the epoch of the vault
C23_EpochCounter ==
    /\ epoch = 0
    /\ [](queueEpoch = epoch)
    /\ [][/\ epoch' >= epoch
          /\ epoch' # epoch => InitializeEpochUpTo(MaxBookEpoch)
          /\ InitializeEpochUpTo(MaxBookEpoch)
                => /\ epoch' = epoch + 1
                   /\ queueEpoch' = epoch']_vars

\* initializeEpoch went through twice
C23_Witness ==
    /\ epoch = 2
    /\ queueEpoch = 2
    /\ auctions[1].maxPrice64x64 # 0

\* ------------------------------------------------------ option parameters

\* C24: the option of epoch e is written by the initializeAuction of that
\* epoch and never again: once the auction of e has left Uninitialized, no
\* step changes the option of e, nor the expiry, strike and longTokenId of
\* the auction of e
C24_OptionImmutable ==
    [][\A e \in Epochs :
          /\ options'[e] # options[e]
                => /\ InitializeAuction
                   /\ e = epoch
                   /\ options[e] = ZeroOption
                   /\ auctions[e].status = UNINITIALIZED
          /\ auctions[e].status # UNINITIALIZED
                => /\ options'[e] = options[e]
                   /\ auctions'[e].expiry = auctions[e].expiry
                   /\ auctions'[e].strike64x64 = auctions[e].strike64x64
                   /\ auctions'[e].longTokenId = auctions[e].longTokenId]_vars

\* the options of two epochs were written, the first auction is processed
\* and holds the parameters of its option
C24_Witness ==
    /\ options[0] # ZeroOption
    /\ options[1] # ZeroOption
    /\ options[0].expiry # options[1].expiry
    /\ auctions[0].status = PROCESSED
    /\ auctions[0].expiry = options[0].expiry
    /\ auctions[0].strike64x64 = options[0].strike64x64
    /\ auctions[0].longTokenId = options[0].longTokenId

\* ------------------------------------------------------------ price curve

\* C25: the price curve of an auction with startTime < endTime and
\* maxPrice > minPrice > 0 is maxPrice at every t <= startTime, minPrice at
\* endTime, and in between it does not rise and follows the straight line
\* from maxPrice to minPrice up to the rounding of divu and mul: for
\* startTime <= t1 <= t2 <= endTime,
\* minPrice <= price(t2) <= price(t1) <= maxPrice
C25_PriceCurve ==
    \A e \in Epochs :
        LET a == auctions[e]
            x == a.maxPrice64x64 - a.minPrice64x64
            total == a.endTime - a.startTime
        IN  (/\ a.startTime < a.endTime
             /\ a.maxPrice64x64 > a.minPrice64x64
             /\ a.minPrice64x64 > 0)
            => /\ \A t \in 0 .. a.startTime :
                     priceCurve64x64(a, t) = a.maxPrice64x64
               /\ priceCurve64x64(a, a.endTime) = a.minPrice64x64
               /\ \A t1 \in a.startTime .. a.endTime :
                  \A t2 \in t1 .. a.endTime :
                     /\ a.minPrice64x64 <= priceCurve64x64(a, t2)
                     /\ priceCurve64x64(a, t2) <= priceCurve64x64(a, t1)
                     /\ priceCurve64x64(a, t1) <= a.maxPrice64x64
               /\ \A t \in a.startTime .. a.endTime :
                     LET y == a.maxPrice64x64 - priceCurve64x64(a, t)
                         elapsed == t - a.startTime
                     IN  /\ y * total <= elapsed * x
                         /\ elapsed * x * ONE
                                < (y + 1) * total * ONE + x * total

\* a market order was taken inside the window at a price strictly between
\* the minimum and the maximum
C25_Witness ==
    /\ auctions[0].startTime < now
    /\ now < auctions[0].endTime
    /\ \E i \in 1 .. Len(orderbooks[0].list) :
          /\ orderbooks[0].list[i].price64x64 = priceCurve64x64(auctions[0], now)
          /\ orderbooks[0].list[i].price64x64 < auctions[0].maxPrice64x64
          /\ orderbooks[0].list[i].price64x64 > auctions[0].minPrice64x64

\* -------------------------------------------------------------- order book

\* the orders of a list whose id is in a set, in the order of the list
Among(list, ids) == SelectSeq(list, LAMBDA o : o.id \in ids)

\* the ids of the orders of a list
IdsOf(list) == {list[i].id : i \in 1 .. Len(list)}

\* C26: after any sequence of inserts and removes, the book from head to
\* tail is in non-increasing price and, among equal prices, in insertion
\* order; an insert puts the new order after every order with the same or a
\* higher price and before every order with a lower price, and neither
\* insert nor remove moves the other orders
C26_BookOrder ==
    /\ [](\A e \in Epochs :
            LET list == orderbooks[e].list
            IN  \A i \in 1 .. Len(list) : \A j \in (i + 1) .. Len(list) :
                    \/ list[i].price64x64 > list[j].price64x64
                    \/ /\ list[i].price64x64 = list[j].price64x64
                       /\ list[i].id < list[j].id)
    /\ [][\A e \in Epochs :
            LET old == orderbooks[e].list
                new == orderbooks'[e].list
            IN  /\ Among(new, IdsOf(old)) = Among(old, IdsOf(new))
                /\ (TestInsert /\ new # old) =>
                      \E k \in 1 .. Len(new) :
                          /\ new[k].id = orderbooks[e].nextId
                          /\ old = Without(new, k)
                          /\ \A i \in 1 .. (k - 1) :
                                new[i].price64x64 >= new[k].price64x64
                          /\ \A i \in (k + 1) .. Len(new) :
                                new[i].price64x64 < new[k].price64x64
                /\ (TestRemove /\ new # old) =>
                      \E k \in 1 .. Len(old) : new = Without(old, k)]_vars

\* a book of three orders after an insert between two removes: two orders
\* of equal price in insertion order behind a later order of higher price
C26_Witness ==
    /\ orderbooks[0].nextId = MaxBookOrders + 1
    /\ Len(orderbooks[0].list) = 3
    /\ orderbooks[0].list[1].id = 4
    /\ orderbooks[0].list[2].id = 1
    /\ orderbooks[0].list[3].id = 3
    /\ orderbooks[0].list[2].price64x64 = orderbooks[0].list[3].price64x64

\* ---------------------------------------------------------------- calendar

\* C27 as stated: friday is idempotent, friday(friday(t)) = friday(t)
C27_FridayIdempotent ==
    getFriday(getFriday(now)) = getFriday(now)

\* C27 amended: friday(t) is itself a Friday 8AM, which friday takes to the
\* Friday 8AM of the week after: friday(friday(t)) = friday(t) + 7 days
C27_FridayOfFriday ==
    getFriday(getFriday(now)) = getFriday(now) + 7 * Day

\* the first auction was placed by friday at a time past the first Friday
C27_Witness ==
    /\ now > Day + Hours8
    /\ auctions[0].status = INITIALIZED
    /\ auctions[0].startTime = getFriday(now) + startOffset
    /\ startTime = auctions[0].startTime

\* the hours of a week, and the hour of the week at which a timestamp
\* falls, counted from Monday 00:00 (1 January 1970 is a Thursday)
Week == 7 * Day
HourOfWeek(t) == (t + 3 * Day) % Week

\* Friday 08:00 counted from Monday 00:00
FridayHour == 4 * Day + Hours8

\* C28: friday(t) is the Friday 08:00 of the week of t when t falls before
\* it (Monday 00:00 up to Friday 08:00 excluded), and the Friday 08:00 of
\* the week after when t is at or after it (Friday 08:00, later on Friday,
\* Saturday, Sunday); it is always a Friday 08:00 strictly later than t and
\* at most 7 days after t
C28_FridayOfWeek ==
    LET f == getFriday(now)
        monday == now - HourOfWeek(now)
    IN  /\ HourOfWeek(f) = FridayHour
        /\ f > now
        /\ f <= now + Week
        /\ HourOfWeek(now) < FridayHour => f = monday + FridayHour
        /\ HourOfWeek(now) >= FridayHour => f = monday + Week + FridayHour

\* the first auction was placed from a Friday 08:00 sharp, a week ahead
C28_Witness ==
    /\ HourOfWeek(now) = FridayHour
    /\ auctions[0].status = INITIALIZED
    /\ auctions[0].startTime = now + Week + startOffset

\* ------------------------------------------------------------------ Queue

\* C29: a deposit of x followed by a cancel of x in the same epoch gives the
\* depositor its collateral back exactly and puts its claim tokens of the
\* current id back to what they were before the deposit, and leaves the
\* claim tokens of every other depositor as they were
C29_DepositCancelRoundTrip ==
    [][\A d \in Depositors, x \in QueueAmounts :
          depositBy(d, x) =>
              /\ cancelAllowed(d, x)'
              /\ cancelWallets(d, x)'[d] = wallets[d]
              /\ cancelClaims(d, x)'[d][queueEpoch]
                     = claimTokens[d][queueEpoch]
              /\ \A o \in Depositors \ {d} :
                     cancelClaims(d, x)'[o] = claimTokens[o]]_vars

\* after three deposits in the first epoch, lp1 has all its collateral and
\* no claim token while lp2 holds the claim tokens of its deposit
C29_Witness ==
    /\ deposits = 3
    /\ queueEpoch = 0
    /\ wallets["lp1"] = Funds
    /\ claimTokens["lp1"][0] = 0
    /\ wallets["lp2"] = Funds - 2
    /\ claimTokens["lp2"][0] = 2

\* C30: a redeem of the current claim token id never goes through; a redeem
\* of the id of a processed epoch burns the whole balance b of the caller
\* for that id and moves b x pricePerShare[id] / scale vault shares from
\* the queue to the receiver; pricePerShare[id] is written when the deposits
\* of that epoch are processed and never afterwards
C30_Redeem ==
    /\ [](\A d \in Depositors, r \in Depositors :
             ~ENABLED redeemBy(d, queueEpoch, r))
    /\ [][/\ \A d \in Depositors, id \in Epochs, r \in Depositors :
               (id < queueEpoch /\ redeemBy(d, id, r)) =>
                   LET b == claimTokens[d][id]
                       paid == (b * pricePerShare[id]) \div PpsScale
                   IN  /\ claimTokens'[d][id] = 0
                       /\ lpShares'[r] = lpShares[r] + paid
                       /\ shares'.queue = shares.queue - paid
                       /\ \A o \in Depositors \ {r} :
                              lpShares'[o] = lpShares[o]
          /\ \A e \in Epochs :
                 e < queueEpoch => pricePerShare'[e] = pricePerShare[e]
          /\ queueEpoch' # queueEpoch =>
                  /\ queueEpoch' = queueEpoch + 1
                  /\ pricePerShare'[queueEpoch] =
                         IF currentTokenSupply = 0 THEN 0
                         ELSE ((shares'.queue - shares.queue) * PpsScale)
                              \div currentTokenSupply]_vars

\* two deposits were made, one in each epoch, and the second epoch was
\* processed at half a share per claim token: its two claim tokens are gone,
\* which without a third deposit only a redeem does, and the queue has paid
\* the one share they were worth
C30_Witness ==
    /\ deposits = 2
    /\ queueEpoch = 2
    /\ pricePerShare[1] = PpsScale \div 2
    /\ \A d \in Depositors : claimTokens[d][1] = 0
    /\ shares.queue = 0
    /\ lpShares["lp1"] + lpShares["lp2"] = 2

\* ------------------------------------------------------------ VaultAdmin

\* C31: whatever setters the owner calls, delta and deltaOffset are in
\* (0, 1) with delta above deltaOffset, the two fees are in [0, 1), and the
\* end offset is above the start offset
C31_ConfigInRange ==
    /\ config.delta64x64 > 0 /\ config.delta64x64 < ONE
    /\ config.deltaOffset64x64 > 0 /\ config.deltaOffset64x64 < ONE
    /\ config.delta64x64 - config.deltaOffset64x64 > 0
    /\ config.performanceFee64x64 >= 0 /\ config.performanceFee64x64 < ONE
    /\ config.withdrawalFee64x64 >= 0 /\ config.withdrawalFee64x64 < ONE
    /\ config.endOffset > config.startOffset

\* -------------------------------------------------------- Auction.withdraw

\* the long tokens withdraw sends the buyer for the book as it is now
FillDue(e, buyer) ==
    LET w == previewWithdraw(auctions[e], orderbooks[e].list, buyer, now)
    IN  IF w.ok THEN w.fill ELSE 0

\* the long tokens withdraw sends the buyers that have orders in the book
FillsDue(e) == SumOver([b \in Buyers |-> FillDue(e, b)], Buyers)

\* the long tokens of the epoch that withdraw has sent so far: what the
\* auction received at processing less what it holds
FillsPaid(e) ==
    auctions[e].totalContractsSold - Bal(longs, auctions[e].longTokenId)

\* C32: in a Processed epoch, whichever buyers have withdrawn so far, the
\* long tokens withdraw has sent and the long tokens it sends the buyers
\* still in the book add up to no more than totalContractsSold
C32_FillsWithinSold ==
    \A e \in Epochs :
        (auctions[e].status = PROCESSED /\ now < auctions[e].expiry)
            => FillsPaid(e) + FillsDue(e) <= auctions[e].totalContractsSold

\* C33: in a Processed or Cancelled epoch, what withdraw computes for a
\* buyer that has orders in the book (the refund and the fill) is the same
\* before and after the withdraw of another buyer has removed its orders
C33_WithdrawIndependent ==
    [][\A e \in Epochs, o \in Buyers :
          (/\ auctions[e].status \in {PROCESSED, CANCELLED}
           /\ auctions'[e] = auctions[e]
           /\ now' = now
           /\ orderbooks'[e].list # orderbooks[e].list
           /\ OrdersOf(orderbooks'[e].list, o) # <<>>)
              => previewWithdraw(auctions[e], orderbooks'[e].list, o, now)
                     = previewWithdraw(auctions[e], orderbooks[e].list, o,
                                       now)]_vars

\* C34: in a Cancelled auction, and in a Processed auction after the hold
\* period, the withdraw of every buyer that has orders in the book goes
\* through: the subtraction of the contracts counted so far from
\* totalContracts does not underflow, and the auction holds the long tokens
\* and the collateral it has to send
C34_WithdrawSucceeds ==
    \A e \in Epochs, b \in Buyers, spot64x64 \in Spots :
        (/\ withdrawAllowed(auctions[e], now)
         /\ OrdersOf(orderbooks[e].list, b) # <<>>)
            => withdrawSucceeds(e, b, spot64x64)

\* the collateral the auction has to send the buyer on withdraw, for the
\* book as it is now
RefundDue(e, buyer) ==
    LET w == previewWithdraw(auctions[e], orderbooks[e].list, buyer, now)
    IN  IF w.ok THEN w.refund ELSE 0

\* the collateral of the buyers that the auction has to hold for the epoch:
\* what the buyers paid for the orders in the book until the premiums are
\* transferred, and the refunds of withdraw afterwards
CollateralDue(e) ==
    IF auctions[e].status \in {PROCESSED, CANCELLED}
    THEN SumOver([b \in Buyers |-> RefundDue(e, b)], Buyers)
    ELSE PaidFor(orderbooks[e].list)

\* C35: the collateral the auction holds covers, epoch by epoch, what the
\* buyers paid for the orders in the book less the premiums transferred to
\* the vault, so that every refund of withdraw can be paid
C35_AuctionSolvent ==
    erc20.auction >= SumOver([e \in Epochs |-> CollateralDue(e)], Epochs)

\* ------------------------------------------------------------ epoch cycle

\* C36: the epoch cycle does not get stuck: once the auction of the current
\* epoch is initialized with a strike, whatever happens to it, as calls keep
\* being made initializeEpoch can be called with success at some later time
C36_EpochAdvances ==
    []((epoch < MaxBookEpoch /\ options[epoch].strike64x64 > 0)
           => <>(ENABLED InitializeEpochUpTo(MaxBookEpoch)))

\* ---------------------------------------------------------- clearing price

\* C37: in a Finalized or Processed auction that sold contracts, the last
\* price is at least the minimum price of the auction
C37_ClearingAboveMin ==
    \A e \in Epochs :
        (/\ auctions[e].status \in {FINALIZED, PROCESSED}
         /\ auctions[e].totalContractsSold > 0)
            => lastPrice64x64(auctions[e]) >= auctions[e].minPrice64x64

\* ------------------------------------------------------- finalized outcome

\* C38: while an auction stays Finalized, its last price, its total
\* contracts, its total contracts sold and its order book do not change
C38_FinalizedFrozen ==
    [][\A e \in Epochs :
          (/\ auctions[e].status = FINALIZED
           /\ auctions'[e].status = FINALIZED)
              => /\ auctions'[e].lastPrice64x64 = auctions[e].lastPrice64x64
                 /\ auctions'[e].totalContracts = auctions[e].totalContracts
                 /\ auctions'[e].totalContractsSold
                        = auctions[e].totalContractsSold
                 /\ orderbooks'[e] = orderbooks[e]]_vars

\* ----------------------------------------------------------- auction window

\* C39: an Initialized auction starts before it ends and ends no later than
\* the expiry of its option
C39_WindowBeforeExpiry ==
    \A e \in Epochs :
        auctions[e].status = INITIALIZED
            => /\ auctions[e].startTime < auctions[e].endTime
               /\ auctions[e].endTime <= auctions[e].expiry

\* ---------------------------------------------------------------- insertion

\* C40: an order is inserted only into the book of an auction that is
\* Initialized when the insertion happens
C40_InsertedWhileInitialized ==
    [][\A e \in Epochs :
          Len(orderbooks'[e].list) > Len(orderbooks[e].list)
              => auctions[e].status = INITIALIZED]_vars

====
